---------------------------- MODULE Spec2Model ----------------------------
(***************************************************************************)
(* The agent execution core of OpenManus: BaseAgent (app/agent/base.py),   *)
(* its Memory log (app/schema.py) and the step hook of Manus               *)
(* (app/agent/manus.py), as a state machine.                               *)
(*                                                                         *)
(* One agent instance is modelled.  Coroutines that call into it are the   *)
(* elements of Calls; an action is the code a coroutine runs between two   *)
(* suspension points (an await that reaches the event loop): awaiting an   *)
(* observer inside Memory.add_message, and awaiting the model or a tool    *)
(* inside step().  The Memory, update_memory, the ToolCollection and the    *)
(* ToolResult (app/tool/base.py) are also modelled as their callers use    *)
(* them directly, and so are several agents created side by side.          *)
(***************************************************************************)
EXTENDS Integers, Sequences, FiniteSets, TLC

\* ------------------------------------------------------------------ bounds
\* Largest max_steps of an agent whose run() calls may overlap.
MaxSteps == 2
\* Largest max_steps of an agent whose run() calls follow one another.
MaxStepsSeq == 4
\* Log capacity (Memory.max_messages, 100 in the source) of the agents explored.
MaxMessages == 3
\* Largest duplicate_threshold explored for the stuck detector.
MaxThreshold == 3
\* Longest observer list explored.
MaxObservers == 1
\* Deepest nesting of state_context scopes a caller opens.
MaxNest == 2
\* add_message calls made on a Memory directly
MaxAppends == 5
\* registrations a Memory used directly holds at a time
MaxRegistered == 2
\* tools a ToolCollection holds
MaxTools == 2
\* appends made through update_memory by a user of the agent
MaxUpdates == 2
\* steps and log capacity beyond the least that the stuck abort needs
MaxExtra == 1
\* registrations a Memory holds when its caller registers a callback again
MaxSame == 3

\* ------------------------------------------------------- program constants
\* BaseAgent.duplicate_threshold default.
DefaultDuplicateThreshold == 2
\* run(): max_stuck_retries.
max_stuck_retries == 3

\* -------------------------------------------------------------- value sets
AgentState == {"IDLE", "RUNNING", "FINISHED", "ERROR"}
Roles == {"system", "user", "assistant", "tool"}
\* Message content: "" stands for None or the empty string (both falsy).
Contents == {"", "a", "b"}
\* run(request): "" stands for None or the empty string (both falsy).
Requests == {"", "a"}
\* what users of update_memory pass as content
UpdateContents == {"", "a"}
Calls == {"c1", "c2"}
ObserverIds == {"o1"}
\* the observers callers register with a Memory they use directly
Callbacks == {"o1", "o2"}

Message(role, content) == [role |-> role, content |-> content]
user_message(content) == Message("user", content)
system_message(content) == Message("system", content)
assistant_message(content) == Message("assistant", content)
\* A tool message also carries the name and the tool_call_id it was given.
tool_message(content, name, tool_call_id) ==
  [role |-> "tool", content |-> content, name |-> name,
   tool_call_id |-> tool_call_id]

\* update_memory(role, content, **kwargs): a role that is none of the four,
\* and the keyword arguments, a function from the keys that are given to
\* their values; "" stands for None or the empty string.
RoleArgs == Roles \cup {"function"}
KwKeys == {"name", "tool_call_id"}
KwValues == {"", "k"}
Kwargs == UNION {[K -> KwValues] : K \in SUBSET KwKeys}
ToolKw == [k \in KwKeys |-> "k"]
NoKw == [k \in {} |-> "k"]
\* The keyword arguments explored with a role: every combination with the
\* tool role, whose factory receives them, and none or both with the others.
KwargsOf(role) == IF role = "tool" THEN Kwargs ELSE {NoKw, ToolKw}

\* A factory that builds a tool message from whatever keywords it is given.
msg_factory_FillsIn(role, content, kw) ==
  IF role = "tool"
  THEN <<tool_message(content,
                      IF "name" \in DOMAIN kw THEN kw["name"] ELSE "",
                      IF "tool_call_id" \in DOMAIN kw
                      THEN kw["tool_call_id"] ELSE "")>>
  ELSE <<Message(role, content)>>
\* Lines 97-108 for a role of message_map: the message the factory builds,
\* <<msg>>, or <<>> when the call of the factory raises TypeError, which
\* Message.tool_message does unless it is given both name and tool_call_id.
\* The keywords are passed on for the tool role only.
msg_factory(role, content, kw) ==
  CASE role = "user" -> <<user_message(content)>>
    [] role = "system" -> <<system_message(content)>>
    [] role = "assistant" -> <<assistant_message(content)>>
    [] role = "tool" ->
         IF DOMAIN kw = KwKeys
         THEN <<tool_message(content, kw["name"], kw["tool_call_id"])>>
         ELSE <<>>

\* What a step() of the explored agents appends to the log.
StepMessages == {assistant_message("a"), assistant_message("b")}
\* Targets of the scoped transitions a step() of the explored agents opens.
StepTargets == {"RUNNING", "FINISHED"}

\* ------------------------------------------------------------ pure helpers
RECURSIVE CountDup(_, _)
\* sum(1 for msg in log if msg.role == "assistant" and msg.content == content)
CountDup(log, content) ==
  IF log = <<>> THEN 0
  ELSE (IF Head(log).role = "assistant" /\ Head(log).content = content
        THEN 1 ELSE 0) + CountDup(Tail(log), content)

\* messages[:-1]
AllButLast(log) == SubSeq(log, 1, Len(log) - 1)

\* A detector that counts the last message among its own duplicates.
is_stuck_CountsLast(log, threshold) ==
  IF Len(log) < 2 THEN FALSE
  ELSE IF log[Len(log)].content = "" THEN FALSE
  ELSE CountDup(log, log[Len(log)].content) >= threshold

\* BaseAgent.is_stuck
is_stuck(log, threshold) ==
  IF Len(log) < 2 THEN FALSE
  ELSE IF log[Len(log)].content = "" THEN FALSE
  ELSE CountDup(AllButLast(log), log[Len(log)].content) >= threshold

\* log[-n:] for n >= 0; -0 is 0, so log[-0:] is the whole log
LastN(log, n) ==
  IF n = 0 \/ Len(log) <= n THEN log
  ELSE SubSeq(log, Len(log) - n + 1, Len(log))

\* A trim that keeps the oldest messages.
Trim_KeepsOldest(log, cap) ==
  IF Len(log) > cap THEN SubSeq(log, 1, cap) ELSE log
\* Memory.add_message, the trim to capacity
Trim(log, cap) == IF Len(log) > cap THEN LastN(log, cap) ELSE log

\* state_context: self.state = new_state
EnterState(new_state) == new_state
\* state_context: except Exception: self.state = AgentState.ERROR
FaultState(current) == "ERROR"
\* A scope exit that keeps FINISHED when the body set it.
RevertState_KeepsFinished(previous, current) ==
  IF current = "FINISHED" THEN current ELSE previous
\* A scope exit that restores nothing.
RevertState_NoRevert(previous, current) == current
\* state_context: finally: self.state = previous_state
RevertState(previous, current) == previous


\* -------------------------------------------------------------------- state
VARIABLES
  state,               \* BaseAgent.state
  current_step,        \* BaseAgent.current_step
  max_steps,           \* BaseAgent.max_steps
  duplicate_threshold, \* BaseAgent.duplicate_threshold
  messages,            \* Memory.messages
  observers,           \* Memory._observers
  max_messages,        \* Memory.max_messages
  pc,                  \* per coroutine: where it is suspended
  request,             \* per coroutine: the argument of its run() call
  idx,                 \* per coroutine: observers already notified in add_message
  previous_state,      \* per coroutine: previous_state of run()'s state_context
  stuck_count,         \* per coroutine: stuck_count of run()
  results,             \* per coroutine: results of run()
  scopes,              \* per coroutine: previous_state of each scope it opened itself
  outcome,             \* per coroutine: how its last call ended
  iters,               \* per coroutine: step() invocations of its run()
  entry_step,          \* per coroutine: current_step when its run() entered RUNNING
  adding,              \* per coroutine: the add_message call it is suspended in
  appended,            \* Memory: messages callers appended since the last clear()
  op,                  \* the last call that reads or removes, and its result
  tools,               \* ToolCollection.tools
  tool_map,            \* ToolCollection.tool_map
  next_step_prompt,    \* BaseAgent.next_step_prompt: the directives put before the text it was given
  fleet                \* the agents created side by side and their Memory objects

vars == <<state, current_step, max_steps, duplicate_threshold, messages,
          observers, max_messages, pc, request, idx, previous_state,
          stuck_count, results, scopes, outcome, iters, entry_step,
          adding, appended, op, tools, tool_map, fleet, next_step_prompt>>

config == <<max_steps, duplicate_threshold, max_messages>>
history == <<iters, entry_step>>
memory == <<messages, observers>>
\* What the agent's own code never touches: the record of the calls made on
\* a Memory or a ToolCollection directly.
registry == <<tools, tool_map>>
outside == <<adding, appended, op, registry, fleet>>

\* The state right after construction of the agent; the coroutines hold nothing.
InitCalls ==
  /\ pc = [c \in Calls |-> "idle"]
  /\ request = [c \in Calls |-> ""]
  /\ idx = [c \in Calls |-> 0]
  /\ previous_state = [c \in Calls |-> "IDLE"]
  /\ stuck_count = [c \in Calls |-> 0]
  /\ results = [c \in Calls |-> <<>>]
  /\ scopes = [c \in Calls |-> <<>>]
  /\ outcome = [c \in Calls |-> "none"]
  /\ iters = [c \in Calls |-> 0]
  /\ entry_step = [c \in Calls |-> 0]
  /\ next_step_prompt = <<>>

\* No call has been made on the Memory; the ToolCollection holds no tool.
EmptyMap == [n \in {} |-> n]
NoCall == [name |-> "none"]
NoAdd == [registered |-> <<>>, notified |-> <<>>, stable |-> TRUE]
NoFleet == [agents |-> EmptyMap, heap |-> <<>>]

InitOutside ==
  /\ adding = [c \in Calls |-> NoAdd]
  /\ appended = 0
  /\ op = NoCall
  /\ tools = <<>>
  /\ tool_map = EmptyMap
  /\ fleet = NoFleet

Init ==
  /\ state = "IDLE"
  /\ current_step = 0
  /\ max_steps \in 0..MaxSteps
  /\ duplicate_threshold = DefaultDuplicateThreshold
  /\ messages = <<>>
  /\ observers = <<>>
  /\ max_messages = MaxMessages
  /\ InitCalls
  /\ InitOutside

\* ------------------------------------------------------- run(): conditions
\* A start check that rejects only a RUNNING agent.
StartAllowed_OnlyRunningRejected(st) == st # "RUNNING"
\* run(): if self.state != AgentState.IDLE: raise RuntimeError
StartAllowed(st) == st = "IDLE"
\* A loop condition that lets the counter pass max_steps by one.
LoopContinues_OffByOne(cs, ms, st) == cs <= ms /\ st # "FINISHED"
\* A loop condition that does not look at the state.
LoopContinues_IgnoresFinished(cs, ms, st) == cs < ms
\* run(): while self.current_step < self.max_steps and self.state != FINISHED
LoopContinues(cs, ms, st) == cs < ms /\ st # "FINISHED"
\* A stuck check that breaks one detection late.
StuckBreak_OneLate(sc) == sc > max_stuck_retries
\* run(): if stuck_count >= max_stuck_retries: break
StuckBreak(sc) == sc >= max_stuck_retries
\* An exit check that the counter has to pass max_steps to satisfy.
ReachedMax_Strict(cs, ms) == cs > ms
\* run(): if self.current_step >= self.max_steps
ReachedMax(cs, ms) == cs >= ms

\* A handler that leaves the prompt as it is.
handle_stuck_state_NoDirective(prompt) == prompt
\* handle_stuck_state: next_step_prompt = f"{stuck_prompt}\n{next_step_prompt}";
\* the prompt is the sequence of the directives put before the original text.
handle_stuck_state(prompt) == <<"stuck_prompt">> \o prompt

\* --------------------------------------------- run(): code between awaits
\* Lines 151-156 and the exit of the RUNNING scope: the loop has ended with
\* state st, counter cs and results res; prev is the scope's previous_state.
Finish(c, prev, st, cs, res, e) ==
  LET atMax == ReachedMax(cs, max_steps)
      st1 == IF atMax THEN "IDLE" ELSE st
      cs1 == IF atMax THEN 0 ELSE cs
      res1 == IF atMax THEN Append(res, <<"max", max_steps>>) ELSE res
  IN /\ state' = RevertState(prev, st1)
     /\ current_step' = cs1
     /\ pc' = [pc EXCEPT ![c] = "done"]
     /\ previous_state' = [previous_state EXCEPT ![c] = "IDLE"]
     /\ stuck_count' = [stuck_count EXCEPT ![c] = 0]
     /\ results' = [results EXCEPT ![c] = res1]
     /\ outcome' = [outcome EXCEPT ![c] = "returned"]
     /\ iters' = iters
     /\ entry_step' = [entry_step EXCEPT ![c] = e]

\* The head of the while loop (lines 124-132): either the next step() is
\* invoked, and the coroutine is suspended in it, or the loop ends.
LoopHead(c, prev, st, cs, sc, res, e) ==
  IF LoopContinues(cs, max_steps, st)
  THEN /\ state' = st
       /\ current_step' = cs + 1
       /\ pc' = [pc EXCEPT ![c] = "step"]
       /\ previous_state' = [previous_state EXCEPT ![c] = prev]
       /\ stuck_count' = [stuck_count EXCEPT ![c] = sc]
       /\ results' = [results EXCEPT ![c] = res]
       /\ outcome' = outcome
       /\ iters' = [iters EXCEPT ![c] = @ + 1]
       /\ entry_step' = [entry_step EXCEPT ![c] = e]
  ELSE Finish(c, prev, st, cs, res, e)

\* Line 123: async with self.state_context(AgentState.RUNNING), then the loop.
EnterRun(c) ==
  /\ LoopHead(c, state, EnterState("RUNNING"), current_step, 0, <<>>,
              current_step)
  /\ UNCHANGED next_step_prompt

\* A handler that records the fault and goes on with the loop.
HandleStepFault_Continues(c, st) ==
  /\ LoopHead(c, previous_state[c], st, current_step, stuck_count[c],
              Append(results[c], <<"error", current_step>>), entry_step[c])
  /\ UNCHANGED next_step_prompt
\* Lines 145-149: step() raised; the error entry is recorded and the loop ends.
HandleStepFault(c, st) ==
  /\ Finish(c, previous_state[c], st, current_step,
            Append(results[c], <<"error", current_step>>), entry_step[c])
  /\ UNCHANGED next_step_prompt

\* ------------------------------------------------------------ run(): entry
\* A caller creates the coroutine c = agent.run(req); its body has not started.
Invoke(c, req) ==
  /\ pc[c] = "idle"
  /\ pc' = [pc EXCEPT ![c] = "called"]
  /\ request' = [request EXCEPT ![c] = req]
  /\ outcome' = [outcome EXCEPT ![c] = "pending"]
  /\ UNCHANGED <<state, current_step, config, outside, memory, idx, previous_state,
                 stuck_count, results, scopes, history, next_step_prompt>>

\* Lines 113-114: the start is rejected.
RunReject(c) ==
  /\ pc[c] = "called"
  /\ ~StartAllowed(state)
  /\ pc' = [pc EXCEPT ![c] = "done"]
  /\ request' = [request EXCEPT ![c] = ""]
  /\ outcome' = [outcome EXCEPT ![c] = "rejected"]
  /\ UNCHANGED <<state, current_step, config, outside, memory, idx, previous_state,
                 stuck_count, results, scopes, history, next_step_prompt>>

\* Lines 113-132 with no request: nothing is awaited before the first step().
RunStartNoInput(c) ==
  /\ pc[c] = "called"
  /\ StartAllowed(state)
  /\ request[c] = ""
  /\ EnterRun(c)
  /\ UNCHANGED <<config, outside, memory, request, idx, scopes>>

\* Lines 113-117 with a request: the user message is appended and, when an
\* observer is registered, add_message awaits it; otherwise as above.
RunStartInput(c) ==
  /\ pc[c] = "called"
  /\ StartAllowed(state)
  /\ request[c] # ""
  /\ request' = [request EXCEPT ![c] = ""]
  /\ IF observers = <<>>
     THEN /\ messages' = Trim(Append(messages, user_message(request[c])),
                              max_messages)
          /\ EnterRun(c)
          /\ UNCHANGED idx
     ELSE /\ messages' = Append(messages, user_message(request[c]))
          /\ pc' = [pc EXCEPT ![c] = "notify_input"]
          /\ idx' = [idx EXCEPT ![c] = 0]
          /\ UNCHANGED <<state, current_step, previous_state, stuck_count,
                         results, outcome, history, next_step_prompt>>
  /\ UNCHANGED <<config, outside, observers, scopes>>

\* ------------------------------------------------- Memory.add_message loop
\* for observer in self._observers: the list iterator holds a position and
\* looks at the list as it is when the awaited observer i (from 0) returns.
HasNext(i, list) == i + 1 < Len(list)

\* The awaited observer returns.  The for loop goes on to the next observer
\* of the list as it is now, or ends: the log is trimmed and the caller of
\* add_message goes on (run() enters its scope, or step() continues).
NotifyDone(c) ==
  /\ pc[c] \in {"notify_input", "notify_step"}
  /\ IF HasNext(idx[c], observers)
     THEN /\ idx' = [idx EXCEPT ![c] = @ + 1]
          /\ UNCHANGED <<state, current_step, messages, pc, previous_state,
                         stuck_count, results, outcome, history, next_step_prompt>>
     ELSE /\ idx' = [idx EXCEPT ![c] = 0]
          /\ messages' = Trim(messages, max_messages)
          /\ IF pc[c] = "notify_input"
             THEN EnterRun(c)
             ELSE /\ pc' = [pc EXCEPT ![c] = "step"]
                  /\ UNCHANGED <<state, current_step, previous_state,
                                 stuck_count, results, outcome, history, next_step_prompt>>
  /\ UNCHANGED <<config, outside, observers, request, scopes>>

\* The awaited observer raises.  schema.py never imports logger, so the
\* handler's logger.error raises NameError, and so does the outer handler's:
\* add_message raises, with the message appended and the log not trimmed.
\* In run() line 117 nothing catches it; inside step() it is a step fault.
NotifyFault(c) ==
  /\ pc[c] \in {"notify_input", "notify_step"}
  /\ idx' = [idx EXCEPT ![c] = 0]
  /\ IF pc[c] = "notify_input"
     THEN /\ pc' = [pc EXCEPT ![c] = "done"]
          /\ outcome' = [outcome EXCEPT ![c] = "raised"]
          /\ UNCHANGED <<state, current_step, previous_state, stuck_count,
                         results, history, next_step_prompt>>
     ELSE HandleStepFault(c, state)
  /\ UNCHANGED <<config, outside, memory, request, scopes>>

\* Memory.add_observer
AddObserver(o) ==
  /\ Len(observers) < MaxObservers
  /\ observers' = Append(observers, o)
  /\ UNCHANGED <<state, current_step, config, outside, messages, pc, request, idx,
                 previous_state, stuck_count, results, scopes, outcome, history, next_step_prompt>>

RECURSIVE RemoveFirst(_, _)
\* list.remove(o): the first occurrence
RemoveFirst(list, o) ==
  IF list = <<>> THEN <<>>
  ELSE IF Head(list) = o THEN Tail(list)
  ELSE <<Head(list)>> \o RemoveFirst(Tail(list), o)

\* Memory.remove_observer
RemoveObserver(o) ==
  /\ observers' = RemoveFirst(observers, o)
  /\ UNCHANGED <<state, current_step, config, outside, messages, pc, request, idx,
                 previous_state, stuck_count, results, scopes, outcome, history, next_step_prompt>>


\* ----------------------------------------------------------------- step()
\* What the subclass hook does while run() awaits it.  The explored step()
\* implementations append messages (Manus._execute_single_step, line 267),
\* set FINISHED, and open further scoped transitions; each returns or raises.

\* update_memory inside step(): the message is appended; add_message awaits
\* the first observer, or with none registered trims and returns at once.
StepAppend(c, m) ==
  /\ pc[c] = "step"
  /\ scopes[c] = <<>>
  /\ IF observers = <<>>
     THEN /\ messages' = Trim(Append(messages, m), max_messages)
          /\ UNCHANGED <<pc, idx>>
     ELSE /\ messages' = Append(messages, m)
          /\ pc' = [pc EXCEPT ![c] = "notify_step"]
          /\ idx' = [idx EXCEPT ![c] = 0]
  /\ UNCHANGED <<state, current_step, config, outside, observers, request,
                 previous_state, stuck_count, results, scopes, outcome, history, next_step_prompt>>

\* step() sets self.state = AgentState.FINISHED (the terminate signal).
StepSetFinished(c) ==
  /\ pc[c] = "step"
  /\ scopes[c] = <<>>
  /\ state # "FINISHED"
  /\ state' = "FINISHED"
  /\ UNCHANGED <<current_step, config, outside, memory, pc, request, idx,
                 previous_state, stuck_count, results, scopes, outcome, history, next_step_prompt>>

\* step() enters a state_context(target) of its own (lines 80-83).
StepCtxEnter(c, target) ==
  /\ pc[c] = "step"
  /\ scopes[c] = <<>>
  /\ scopes' = [scopes EXCEPT ![c] = Append(@, state)]
  /\ state' = EnterState(target)
  /\ UNCHANGED <<current_step, config, outside, memory, pc, request, idx,
                 previous_state, stuck_count, results, outcome, history, next_step_prompt>>

\* The body of step()'s innermost scope ends normally (line 88).
StepCtxExit(c) ==
  /\ pc[c] = "step"
  /\ scopes[c] # <<>>
  /\ state' = RevertState(scopes[c][Len(scopes[c])], state)
  /\ scopes' = [scopes EXCEPT ![c] = SubSeq(@, 1, Len(@) - 1)]
  /\ UNCHANGED <<current_step, config, outside, memory, pc, request, idx,
                 previous_state, stuck_count, results, outcome, history, next_step_prompt>>

RECURSIVE UnwindFault(_, _)
\* A fault leaves the open scopes innermost first, each by lines 84-88.
UnwindFault(stack, st) ==
  IF stack = <<>> THEN st
  ELSE UnwindFault(SubSeq(stack, 1, Len(stack) - 1),
                   RevertState(stack[Len(stack)], FaultState(st)))

\* The body of step()'s innermost scope raises: the fault leaves every scope
\* of the step, then step() itself, and run() handles it (no await between).
StepCtxFault(c) ==
  /\ pc[c] = "step"
  /\ scopes[c] # <<>>
  /\ scopes' = [scopes EXCEPT ![c] = <<>>]
  /\ HandleStepFault(c, UnwindFault(scopes[c], state))
  /\ UNCHANGED <<config, outside, memory, request, idx>>

\* step() returns (lines 132-144, then the loop head or the loop's end).
StepReturn(c) ==
  /\ pc[c] = "step"
  /\ scopes[c] = <<>>
  /\ LET stuck == is_stuck(messages, duplicate_threshold)
         sc1 == IF stuck THEN stuck_count[c] + 1 ELSE 0
         entry == <<"step", current_step>>
     IN IF stuck /\ StuckBreak(sc1)
        THEN /\ Finish(c, previous_state[c], state, current_step, results[c],
                       entry_step[c])
             /\ UNCHANGED next_step_prompt
        ELSE /\ LoopHead(c, previous_state[c], state, current_step, sc1,
                         Append(results[c], entry), entry_step[c])
             /\ next_step_prompt' =
                  IF stuck THEN handle_stuck_state(next_step_prompt)
                  ELSE next_step_prompt
  /\ UNCHANGED <<config, outside, memory, request, idx, scopes>>

\* step() raises outside any scope of its own (lines 145-149).
StepFault(c) ==
  /\ pc[c] = "step"
  /\ scopes[c] = <<>>
  /\ HandleStepFault(c, state)
  /\ UNCHANGED <<config, outside, memory, request, idx, scopes>>

\* ------------------------------------------------------------ specification
\* What a coroutine does once run() has let it start.
Body(c) ==
  \/ RunStartNoInput(c)
  \/ RunStartInput(c)
  \/ NotifyDone(c)
  \/ NotifyFault(c)
  \/ \E m \in StepMessages : StepAppend(c, m)
  \/ StepSetFinished(c)
  \/ \E target \in StepTargets : StepCtxEnter(c, target)
  \/ StepCtxExit(c)
  \/ StepCtxFault(c)
  \/ StepReturn(c)
  \/ StepFault(c)

Observe ==
  \/ \E o \in ObserverIds : AddObserver(o)
  \/ \E o \in ObserverIds : RemoveObserver(o)

\* run() is called on the agent at any time, also while a call is in progress.
Next ==
  \/ \E c \in Calls, req \in Requests : Invoke(c, req)
  \/ \E c \in Calls : RunReject(c)
  \/ \E c \in Calls : Body(c)
  \/ Observe

Spec == Init /\ [][Next]_vars

\* The same calls on an agent constructed in any state (state is a
\* constructor field of BaseAgent).
InitAnyState ==
  /\ state \in AgentState
  /\ current_step = 0
  /\ max_steps \in 0..MaxSteps
  /\ duplicate_threshold = DefaultDuplicateThreshold
  /\ messages = <<>>
  /\ observers = <<>>
  /\ max_messages = MaxMessages
  /\ InitCalls
  /\ InitOutside

SpecAnyState == InitAnyState /\ [][Next]_vars

\* run() is called on the agent only when no call is in progress; no such
\* call finds the agent in a state other than IDLE (SeqStartsIdle), so the
\* rejection of lines 113-114 is no step of this specification.
InvokeSeq(c, req) ==
  /\ \A d \in Calls \ {c} : pc[d] \in {"idle", "done"}
  /\ Invoke(c, req)

InitSeq ==
  /\ state = "IDLE"
  /\ current_step = 0
  /\ max_steps \in 0..MaxStepsSeq
  /\ duplicate_threshold = DefaultDuplicateThreshold
  /\ messages = <<>>
  /\ observers = <<>>
  /\ max_messages = MaxMessages
  /\ InitCalls
  /\ InitOutside

NextSeq ==
  \/ \E c \in Calls, req \in Requests : InvokeSeq(c, req)
  \/ \E c \in Calls : Body(c)
  \/ Observe

SpecSeq == InitSeq /\ [][NextSeq]_vars

\* Under SpecSeq every call starts from IDLE.
SeqStartsIdle == \A c \in Calls : pc[c] = "called" => StartAllowed(state)


\* ------------------------------------------ run() with several observers
\* As app/api/main.py uses the agent: observers are registered while no call
\* is in progress, then run() is called; step() returns or raises.
RegisterObserver(o) ==
  /\ \A c \in Calls : pc[c] \in {"idle", "done"}
  /\ Len(observers) < MaxRegistered
  /\ observers' = Append(observers, o)
  /\ UNCHANGED <<state, current_step, config, outside, messages, pc, request,
                 idx, previous_state, stuck_count, results, scopes, outcome,
                 history, next_step_prompt>>

InitInput ==
  /\ state = "IDLE"
  /\ current_step = 0
  /\ max_steps \in 0..MaxSteps
  /\ duplicate_threshold = DefaultDuplicateThreshold
  /\ messages = <<>>
  /\ observers = <<>>
  /\ max_messages = MaxMessages
  /\ InitCalls
  /\ InitOutside

NextInput ==
  \/ \E o \in Callbacks : RegisterObserver(o)
  \/ \E c \in Calls, req \in Requests : InvokeSeq(c, req)
  \/ \E c \in Calls : RunStartNoInput(c)
  \/ \E c \in Calls : RunStartInput(c)
  \/ \E c \in Calls : NotifyDone(c)
  \/ \E c \in Calls : NotifyFault(c)
  \/ \E c \in Calls : StepReturn(c)
  \/ \E c \in Calls : StepFault(c)

SpecInput == InitInput /\ [][NextInput]_vars

\* ------------------------------------------------- update_memory by a caller
\* BaseAgent.update_memory(role, content) called from outside run(), as
\* app/api/main.py does before run(), a tool message being given a name and
\* a tool_call_id; with no observer registered add_message awaits nothing.
UpdateMemory(role, content) ==
  /\ observers = <<>>
  /\ role \in Roles
  /\ messages' = Trim(Append(messages, msg_factory(role, content, ToolKw)[1]),
                       max_messages)
  /\ UNCHANGED <<state, current_step, config, outside, observers, pc, request, idx,
                 previous_state, stuck_count, results, scopes, outcome,
                 history, next_step_prompt>>

\* An agent of any duplicate_threshold whose log callers fill.
InitStuck ==
  /\ state = "IDLE"
  /\ current_step = 0
  /\ max_steps = 0
  /\ duplicate_threshold \in 1..MaxThreshold
  /\ messages = <<>>
  /\ observers = <<>>
  /\ max_messages = MaxMessages
  /\ InitCalls
  /\ InitOutside

NextStuck == \E role \in Roles, content \in Contents : UpdateMemory(role, content)

SpecStuck == InitStuck /\ [][NextStuck]_vars

\* ------------------------------------------------ state_context by a caller
\* One coroutine using state_context directly, line by line.  pc "ctx": in
\* the body of its innermost scope; "raise": in the except clause (line 86);
\* "propagate": a fault has left an inner scope and is in the enclosing body.

\* Lines 80-83: the scope is entered.
CtxEnter(c, new_state) ==
  /\ pc[c] \in {"idle", "ctx"}
  /\ Len(scopes[c]) < MaxNest
  /\ scopes' = [scopes EXCEPT ![c] = Append(@, state)]
  /\ state' = EnterState(new_state)
  /\ pc' = [pc EXCEPT ![c] = "ctx"]
  /\ UNCHANGED <<current_step, config, outside, memory, request, idx, previous_state,
                 stuck_count, results, outcome, history, next_step_prompt>>

\* The body assigns self.state, as run() (line 153) and step() do.
CtxAssign(c, st) ==
  /\ pc[c] = "ctx"
  /\ state' = st
  /\ UNCHANGED <<current_step, config, outside, memory, pc, request, idx,
                 previous_state, stuck_count, results, scopes, outcome,
                 history, next_step_prompt>>

\* The body ends normally: finally (line 88).
CtxExit(c) ==
  /\ pc[c] = "ctx"
  /\ state' = RevertState(scopes[c][Len(scopes[c])], state)
  /\ scopes' = [scopes EXCEPT ![c] = SubSeq(@, 1, Len(@) - 1)]
  /\ pc' = [pc EXCEPT ![c] = IF Len(scopes[c]) = 1 THEN "idle" ELSE "ctx"]
  /\ UNCHANGED <<current_step, config, outside, memory, request, idx, previous_state,
                 stuck_count, results, outcome, history, next_step_prompt>>

\* The body raises, or lets a fault from an inner scope pass: except (line 85).
CtxFault(c) ==
  /\ pc[c] \in {"ctx", "propagate"}
  /\ state' = FaultState(state)
  /\ pc' = [pc EXCEPT ![c] = "raise"]
  /\ UNCHANGED <<current_step, config, outside, memory, request, idx, previous_state,
                 stuck_count, results, scopes, outcome, history, next_step_prompt>>

\* raise e (line 86) runs finally (line 88); the fault reaches the caller of
\* the scope: the enclosing body, or the coroutine's caller.
CtxFinally(c) ==
  /\ pc[c] = "raise"
  /\ state' = RevertState(scopes[c][Len(scopes[c])], state)
  /\ scopes' = [scopes EXCEPT ![c] = SubSeq(@, 1, Len(@) - 1)]
  /\ pc' = [pc EXCEPT ![c] = IF Len(scopes[c]) = 1 THEN "idle" ELSE "propagate"]
  /\ outcome' = [outcome EXCEPT ![c] = IF Len(scopes[c]) = 1 THEN "raised" ELSE @]
  /\ UNCHANGED <<current_step, config, outside, memory, request, idx, previous_state,
                 stuck_count, results, history, next_step_prompt>>

\* The enclosing body catches the fault of the inner scope.
CtxCatch(c) ==
  /\ pc[c] = "propagate"
  /\ pc' = [pc EXCEPT ![c] = "ctx"]
  /\ UNCHANGED <<state, current_step, config, outside, memory, request, idx,
                 previous_state, stuck_count, results, scopes, outcome,
                 history, next_step_prompt>>

\* An agent constructed in any state (state is a constructor field).
InitScope ==
  /\ state \in AgentState
  /\ current_step = 0
  /\ max_steps = 0
  /\ duplicate_threshold = DefaultDuplicateThreshold
  /\ messages = <<>>
  /\ observers = <<>>
  /\ max_messages = MaxMessages
  /\ InitCalls
  /\ InitOutside

NextScope ==
  \/ \E new_state \in AgentState : CtxEnter("c1", new_state)
  \/ \E st \in AgentState : CtxAssign("c1", st)
  \/ CtxExit("c1")
  \/ CtxFault("c1")
  \/ CtxFinally("c1")
  \/ CtxCatch("c1")

SpecScope == InitScope /\ [][NextScope]_vars

\* ------------------------------------------- a step() that repeats itself
\* One run() on a fresh agent whose step() appends the same assistant
\* message in every iteration and returns (manus.py _execute_single_step
\* with a model that answers the same every time).  The log has room for
\* every message of the run, and max_steps for the stuck abort.
RepeatedMessage == assistant_message("a")

\* step() appends its message, once.
RepeatAppend(c) ==
  /\ CountDup(messages, RepeatedMessage.content) < iters[c]
  /\ StepAppend(c, RepeatedMessage)

\* step() returns after its append.
RepeatReturn(c) ==
  /\ CountDup(messages, RepeatedMessage.content) = iters[c]
  /\ StepReturn(c)

InitRepeat ==
  /\ state = "IDLE"
  /\ current_step = 0
  /\ duplicate_threshold \in 1..MaxThreshold
  /\ max_steps \in (duplicate_threshold + 3)..(duplicate_threshold + 3 + MaxExtra)
  /\ max_messages \in (duplicate_threshold + 5)..(duplicate_threshold + 5 + MaxExtra)
  /\ messages = <<>>
  /\ observers = <<>>
  /\ InitCalls
  /\ InitOutside

NextRepeat ==
  \/ \E req \in Requests : Invoke("c1", req)
  \/ RunStartNoInput("c1")
  \/ RunStartInput("c1")
  \/ RepeatAppend("c1")
  \/ RepeatReturn("c1")

SpecRepeat == InitRepeat /\ [][NextRepeat]_vars

\* ------------------------------------------------- run(), write by write
\* One call of run() after another, each assignment to self.state and to
\* self.current_step being a step of its own: pc "loop" is the head of the
\* while loop, "in_step" the awaited step(), "after" line 151, "exit" the
\* end of the body of the RUNNING scope.  What step() does to the log and
\* what run() collects in results is left out here.

\* Lines 113-123 and 80-83: the start check, then the scope is entered.
LineEnter(c) ==
  /\ pc[c] = "idle"
  /\ StartAllowed(state)
  /\ scopes' = [scopes EXCEPT ![c] = Append(@, state)]
  /\ state' = EnterState("RUNNING")
  /\ pc' = [pc EXCEPT ![c] = "loop"]
  /\ UNCHANGED <<current_step, config, outside, memory, request, idx,
                 previous_state, stuck_count, results, outcome, history,
                 next_step_prompt>>

\* Lines 124-132: the loop goes on, the counter is raised, step() is awaited.
LineIterate(c) ==
  /\ pc[c] = "loop"
  /\ LoopContinues(current_step, max_steps, state)
  /\ current_step' = current_step + 1
  /\ pc' = [pc EXCEPT ![c] = "in_step"]
  /\ UNCHANGED <<state, config, outside, memory, request, idx, previous_state,
                 stuck_count, results, scopes, outcome, history,
                 next_step_prompt>>

\* Lines 124-127: the loop condition is false.
LineLoopEnds(c) ==
  /\ pc[c] = "loop"
  /\ ~LoopContinues(current_step, max_steps, state)
  /\ pc' = [pc EXCEPT ![c] = "after"]
  /\ UNCHANGED <<state, current_step, config, outside, memory, request, idx,
                 previous_state, stuck_count, results, scopes, outcome,
                 history, next_step_prompt>>

\* step() assigns self.state = AgentState.FINISHED.
LineStepSetsFinished(c) ==
  /\ pc[c] = "in_step"
  /\ state # "FINISHED"
  /\ state' = "FINISHED"
  /\ UNCHANGED <<current_step, config, outside, memory, pc, request, idx,
                 previous_state, stuck_count, results, scopes, outcome,
                 history, next_step_prompt>>

\* step() returns and the loop goes back to its head (lines 132-144), or
\* the loop is left by a break (lines 139 and 149).
LineStepEnds(c, break) ==
  /\ pc[c] = "in_step"
  /\ pc' = [pc EXCEPT ![c] = IF break THEN "after" ELSE "loop"]
  /\ UNCHANGED <<state, current_step, config, outside, memory, request, idx,
                 previous_state, stuck_count, results, scopes, outcome,
                 history, next_step_prompt>>

\* Lines 151-154: at max_steps the counter and the state are assigned.
LineAfterLoop(c) ==
  /\ pc[c] = "after"
  /\ IF ReachedMax(current_step, max_steps)
     THEN /\ current_step' = 0
          /\ state' = "IDLE"
     ELSE UNCHANGED <<state, current_step>>
  /\ pc' = [pc EXCEPT ![c] = "exit"]
  /\ UNCHANGED <<config, outside, memory, request, idx, previous_state,
                 stuck_count, results, scopes, outcome, history,
                 next_step_prompt>>

\* Line 88: the body of the scope has ended, the scope is left.
LineExit(c) ==
  /\ pc[c] = "exit"
  /\ state' = RevertState(scopes[c][Len(scopes[c])], state)
  /\ scopes' = [scopes EXCEPT ![c] = SubSeq(@, 1, Len(@) - 1)]
  /\ pc' = [pc EXCEPT ![c] = "idle"]
  /\ UNCHANGED <<current_step, config, outside, memory, request, idx,
                 previous_state, stuck_count, results, outcome, history,
                 next_step_prompt>>

\* What the call c of run() does next.
LineNext(c) ==
  \/ LineEnter(c)
  \/ LineIterate(c)
  \/ LineLoopEnds(c)
  \/ LineStepSetsFinished(c)
  \/ \E break \in BOOLEAN : LineStepEnds(c, break)
  \/ LineAfterLoop(c)
  \/ LineExit(c)

\* The calls come one after another.
NextLines ==
  \E c \in Calls : (\A d \in Calls \ {c} : pc[d] = "idle") /\ LineNext(c)

SpecLines == InitSeq /\ [][NextLines]_vars

\* --------------------------------------------------- a Memory used directly
\* Callers use one Memory through its methods, as app/api/main.py does: one
\* coroutine calls add_message, one call after another; observers are
\* registered and removed and the log is cleared and read at any time, also
\* while add_message is suspended in an observer.  Memory never looks into
\* a message, so the k-th message appended since the last clear() is the
\* message numbered k.
agent == <<state, current_step, config, request, previous_state, stuck_count,
           results, scopes, history, next_step_prompt>>

Range(list) == {list[i] : i \in 1..Len(list)}
Numbered(k) == user_message(k)

\* A removal that drops the newest registration when the observer is absent.
remove_observer_DropsNewest(list, o) ==
  IF o \in Range(list) THEN RemoveFirst(list, o) ELSE AllButLast(list)
\* A removal that drops the latest registration of the observer.
remove_observer_DropsLatest(list, o) ==
  IF o \in Range(list)
  THEN LET i == CHOOSE k \in 1..Len(list) :
                  list[k] = o /\ \A j \in (k + 1)..Len(list) : list[j] # o
       IN SubSeq(list, 1, i - 1) \o SubSeq(list, i + 1, Len(list))
  ELSE list
\* Memory.remove_observer: if observer in self._observers: remove it
remove_observer(list, o) ==
  IF o \in Range(list) THEN RemoveFirst(list, o) ELSE list

\* A clear() that also forgets the observers.
clear_DropsObservers(mem) == <<<<>>, <<>>>>
\* Memory.clear on <<messages, _observers>>
clear(mem) == <<<<>>, mem[2]>>

\* Memory.get_recent_messages: return self.messages[-n:]
get_recent_messages(log, n) == LastN(log, n)

\* observer(message) is called: the call's frame notes who was invoked.
Invoked(c, o) == adding' = [adding EXCEPT ![c].notified = Append(@, o)]

\* The observer list changes: a suspended add_message does not iterate over
\* the list it began with any more.
ListChanged ==
  adding' = [c \in Calls |->
               IF pc[c] = "notify_add"
               THEN [adding[c] EXCEPT !.stable = FALSE] ELSE adding[c]]

\* add_message returns: the log is trimmed first (lines 129-130).
AddReturns(c) ==
  /\ messages' = Trim(messages, max_messages)
  /\ adding' = [adding EXCEPT ![c] = NoAdd]
  /\ pc' = [pc EXCEPT ![c] = "idle"]
  /\ idx' = [idx EXCEPT ![c] = 0]
  /\ outcome' = [outcome EXCEPT ![c] = "returned"]

\* Lines 119-124: the message is appended and the first observer is awaited;
\* with no observer the call is over at once.
add_message(c, msg) ==
  /\ appended' = appended + 1
  /\ LET frame == [registered |-> observers, notified |-> <<>>,
                   stable |-> TRUE]
     IN IF observers = <<>>
        THEN /\ messages' = Trim(Append(messages, msg), max_messages)
             /\ outcome' = [outcome EXCEPT ![c] = "returned"]
             /\ UNCHANGED <<pc, idx, adding>>
        ELSE /\ messages' = Append(messages, msg)
             /\ adding' = [adding EXCEPT
                             ![c] = [frame EXCEPT !.notified = <<observers[1]>>]]
             /\ pc' = [pc EXCEPT ![c] = "notify_add"]
             /\ idx' = [idx EXCEPT ![c] = 0]
             /\ outcome' = [outcome EXCEPT ![c] = "pending"]
  /\ UNCHANGED <<agent, fleet, observers, op, registry>>

\* A caller appends the next numbered message.
MemoryAddMessage(c) ==
  /\ pc[c] = "idle"
  /\ appended < MaxAppends
  /\ add_message(c, Numbered(appended + 1))

\* The awaited observer returns: the next one is awaited, or the call is over.
MemoryNotified(c) ==
  /\ pc[c] = "notify_add"
  /\ IF HasNext(idx[c], observers)
     THEN /\ idx' = [idx EXCEPT ![c] = @ + 1]
          /\ Invoked(c, observers[idx[c] + 2])
          /\ UNCHANGED <<messages, pc, outcome>>
     ELSE AddReturns(c)
  /\ UNCHANGED <<agent, fleet, observers, appended, op, registry>>

\* The awaited observer raises: logger is no name of schema.py, so line 126
\* raises NameError, line 132 raises it again, and add_message raises with
\* the message appended, the later observers not called and the log not
\* trimmed.
MemoryObserverFault(c) ==
  /\ pc[c] = "notify_add"
  /\ pc' = [pc EXCEPT ![c] = "idle"]
  /\ idx' = [idx EXCEPT ![c] = 0]
  /\ outcome' = [outcome EXCEPT ![c] = "raised"]
  /\ adding' = [adding EXCEPT ![c] = NoAdd]
  /\ UNCHANGED <<agent, fleet, memory, appended, op, registry>>

\* Memory.add_observer
MemoryAddObserver(o) ==
  /\ Len(observers) < MaxRegistered
  /\ observers' = Append(observers, o)
  /\ ListChanged
  /\ UNCHANGED <<agent, fleet, messages, pc, idx, outcome, appended, op, registry>>

\* Memory.remove_observer
MemoryRemoveObserver(o) ==
  /\ observers' = remove_observer(observers, o)
  /\ op' = [name |-> "remove_observer", arg |-> o,
            found |-> o \in Range(observers)]
  /\ IF observers' # observers THEN ListChanged ELSE UNCHANGED adding
  /\ UNCHANGED <<agent, fleet, messages, pc, idx, outcome, appended, registry>>

\* Memory.clear
MemoryClear ==
  /\ messages' = clear(memory)[1]
  /\ observers' = clear(memory)[2]
  /\ appended' = 0
  /\ op' = [name |-> "clear", registered |-> observers]
  /\ UNCHANGED <<agent, fleet, pc, idx, outcome, adding, registry>>

\* Memory.get_recent_messages(n)
MemoryGetRecent(n) ==
  /\ op' = [name |-> "get_recent_messages", arg |-> n,
            out |-> get_recent_messages(messages, n)]
  /\ UNCHANGED <<agent, fleet, memory, pc, idx, outcome, adding, appended,
                 registry>>

\* A Memory of any capacity from 1, as constructed: empty, nobody registered.
InitMemory ==
  /\ state = "IDLE"
  /\ current_step = 0
  /\ max_steps = 0
  /\ duplicate_threshold = DefaultDuplicateThreshold
  /\ messages = <<>>
  /\ observers = <<>>
  /\ max_messages \in 1..MaxMessages
  /\ InitCalls
  /\ InitOutside

NextMemory ==
  \/ MemoryAddMessage("c1")
  \/ MemoryNotified("c1")
  \/ MemoryObserverFault("c1")
  \/ \E o \in Callbacks : MemoryAddObserver(o)
  \/ \E o \in Callbacks : MemoryRemoveObserver(o)
  \/ MemoryClear

SpecMemory == InitMemory /\ [][NextMemory]_vars

\* A log that callers fill, clear and read; nobody is registered.
NextRecent ==
  \/ MemoryAddMessage("c1")
  \/ MemoryClear
  \/ \E n \in 0..(MaxMessages + 1) : MemoryGetRecent(n)

SpecRecent == InitMemory /\ [][NextRecent]_vars

\* ------------------------------------ a callback registered several times
\* Memory.add_observer (lines 140-142) by a caller that registers up to
\* MaxSame callbacks, the same one again or another one.
RegisterAgain(o) ==
  /\ Len(observers) < MaxSame
  /\ observers' = Append(observers, o)
  /\ ListChanged
  /\ UNCHANGED <<agent, fleet, messages, pc, idx, outcome, appended, op, registry>>

NextRegister ==
  \/ MemoryAddMessage("c1")
  \/ MemoryNotified("c1")
  \/ MemoryObserverFault("c1")
  \/ \E o \in Callbacks : RegisterAgain(o)
  \/ \E o \in Callbacks : MemoryRemoveObserver(o)

\* The Memory of capacity MaxMessages, as constructed.
InitRegister == InitMemory /\ max_messages = MaxMessages

SpecRegister == InitRegister /\ [][NextRegister]_vars

\* --------------------------------------- update_memory with every argument
\* BaseAgent.update_memory(role, content, **kwargs) called by a user of the
\* agent, up to its first await: the role is validated, the message is built
\* and handed to Memory.add_message.
UpdateMemoryCall(c, role, content, kw) ==
  /\ pc[c] = "idle"
  /\ IF role \notin Roles
     THEN /\ outcome' = [outcome EXCEPT ![c] = "ValueError"]
          /\ UNCHANGED <<agent, fleet, memory, pc, idx, adding, appended, op,
                         registry>>
     ELSE IF msg_factory(role, content, kw) = <<>>
     THEN /\ outcome' = [outcome EXCEPT ![c] = "TypeError"]
          /\ UNCHANGED <<agent, fleet, memory, pc, idx, adding, appended, op,
                         registry>>
     ELSE /\ appended < MaxUpdates
          /\ add_message(c, msg_factory(role, content, kw)[1])

\* An agent whose user registers observers and appends to the log.
InitUpdate ==
  /\ state = "IDLE"
  /\ current_step = 0
  /\ max_steps = 0
  /\ duplicate_threshold = DefaultDuplicateThreshold
  /\ messages = <<>>
  /\ observers = <<>>
  /\ max_messages = MaxMessages
  /\ InitCalls
  /\ InitOutside

NextUpdate ==
  \/ \E role \in RoleArgs, content \in UpdateContents :
       \E kw \in KwargsOf(role) : UpdateMemoryCall("c1", role, content, kw)
  \/ MemoryNotified("c1")
  \/ MemoryObserverFault("c1")
  \/ \E o \in ObserverIds : Len(observers) < MaxObservers /\ MemoryAddObserver(o)

SpecUpdate == InitUpdate /\ [][NextUpdate]_vars


\* ------------------------------------------------------- the ToolCollection
\* One coroutine uses a ToolCollection: tools are added, and execute(name=..)
\* looks the name up and awaits the tool, which returns an output or raises.
\* A string is the sequence of the pieces it is formatted from.
ToolNames == {"t1", "t2"}
\* two tools can carry the same name
Tools == [name : ToolNames, id : 1..2]
\* the name argument of execute; "" stands for every falsy name, None included
NameArgs == ToolNames \cup {""}
\* str(result) of what a tool returns, and str(e) of what it raises
Outputs == {<<"out">>}
Faults == {<<"boom">>, <<"bang">>}

\* "Error: Tool name is required"
ErrNameRequired == <<"Error: ", "Tool name is required">>
\* f"Error: Tool '{name}' not found"
ErrNotFound(name) == <<"Error: ", "Tool '", name, "' not found">>
\* An error text that leaves the message of the fault out.
ErrFault_DropsMessage(e) == <<"Error: ">>
\* f"Error: {str(e)}"
ErrFault(e) == <<"Error: ">> \o e

\* A lookup that falls back on some registered tool.
get_tool_AnyTool(map, name) ==
  IF name \in DOMAIN map THEN <<map[name]>>
  ELSE IF DOMAIN map = {} THEN <<>>
  ELSE <<map[CHOOSE n \in DOMAIN map : TRUE]>>
\* ToolCollection.get_tool: self.tool_map.get(name); <<>> is None
get_tool(map, name) == IF name \in DOMAIN map THEN <<map[name]>> ELSE <<>>

\* ToolCollection.to_params: [tool.to_param() for tool in self.tools], the
\* exported description of a tool carrying its name.
to_params(list) == [i \in 1..Len(list) |-> [function |-> list[i].name,
                                            of |-> list[i]]]

\* ToolCollection.add_tool
AddTool(t) ==
  /\ Len(tools) < MaxTools
  /\ tools' = Append(tools, t)
  /\ tool_map' = [n \in DOMAIN tool_map \cup {t.name} |->
                    IF n = t.name THEN t ELSE tool_map[n]]
  /\ UNCHANGED <<agent, fleet, memory, pc, idx, outcome, adding, appended, op>>

\* What a call of execute has done: the tools it invoked and what it
\* returned (nothing yet while the tool is awaited); it never raises.
Executed(name, invoked, out) ==
  [name |-> "execute", arg |-> name, invoked |-> invoked, out |-> out,
   raised |-> FALSE]

\* ToolCollection.execute up to its await (lines 104-121): the call returns
\* an error text at once, or the tool is invoked and awaited.
Execute(c, name) ==
  /\ pc[c] = "idle"
  /\ LET found == get_tool(tool_map, name)
     IN IF name = ""
        THEN /\ op' = Executed(name, <<>>, ErrNameRequired)
             /\ UNCHANGED pc
        ELSE IF found = <<>>
        THEN /\ op' = Executed(name, <<>>, ErrNotFound(name))
             /\ UNCHANGED pc
        ELSE /\ op' = Executed(name, found, <<>>)
             /\ pc' = [pc EXCEPT ![c] = "tool"]
  /\ UNCHANGED <<agent, fleet, memory, idx, outcome, adding, appended, registry>>

\* The tool returns: return str(result) (line 122).
ToolReturns(c, out) ==
  /\ pc[c] = "tool"
  /\ pc' = [pc EXCEPT ![c] = "idle"]
  /\ op' = [op EXCEPT !.out = out]
  /\ UNCHANGED <<agent, fleet, memory, idx, outcome, adding, appended, registry>>

\* The tool raises: return f"Error: {str(e)}" (lines 123-127).
ToolRaises(c, e) ==
  /\ pc[c] = "tool"
  /\ pc' = [pc EXCEPT ![c] = "idle"]
  /\ op' = [op EXCEPT !.out = ErrFault(e)]
  /\ UNCHANGED <<agent, fleet, memory, idx, outcome, adding, appended, registry>>

\* ToolCollection(): no tool yet; ToolCollection(*tools) is the collection
\* after add_tool of each of the tools.
InitTools ==
  /\ state = "IDLE"
  /\ current_step = 0
  /\ max_steps = 0
  /\ duplicate_threshold = DefaultDuplicateThreshold
  /\ messages = <<>>
  /\ observers = <<>>
  /\ max_messages = MaxMessages
  /\ InitCalls
  /\ InitOutside

NextTools ==
  \/ \E t \in Tools : AddTool(t)
  \/ \E name \in NameArgs : Execute("c1", name)
  \/ \E out \in Outputs : ToolReturns("c1", out)
  \/ \E e \in Faults : ToolRaises("c1", e)

SpecTools == InitTools /\ [][NextTools]_vars


\* ------------------------------------------------------------ ToolResult
\* A field of a ToolResult is None or a text, a text being the sequence of
\* its pieces: None is not set, "" is set and empty.  Both are falsy.
None == [set |-> FALSE, text |-> <<>>]
Text(t) == [set |-> TRUE, text |-> t]
FieldValues == {None, Text(<<>>), Text(<<"x">>), Text(<<"y">>)}
Fields == {"output", "error", "system"}
ToolResults == [Fields -> FieldValues]
Truthy(v) == v.text # <<>>

\* A combination that keeps the other operand's field when both are set.
combine_fields_KeepsOther(field, other_field, concatenate) ==
  IF Truthy(field) /\ Truthy(other_field)
  THEN [raised |-> FALSE, value |-> other_field]
  ELSE [raised |-> FALSE,
        value |-> IF Truthy(field) THEN field ELSE other_field]
\* ToolResult.__add__ combine_fields (lines 49-56): field + other_field when
\* both are truthy and concatenate is set, ValueError when it is not set,
\* and field or other_field otherwise.
combine_fields(field, other_field, concatenate) ==
  IF Truthy(field) /\ Truthy(other_field)
  THEN IF concatenate
       THEN [raised |-> FALSE, value |-> Text(field.text \o other_field.text)]
       ELSE [raised |-> TRUE]
  ELSE [raised |-> FALSE,
        value |-> IF Truthy(field) THEN field ELSE other_field]

\* ToolResult.__add__ (lines 58-62): the three fields are combined with the
\* default of concatenate, True; the call raises when a combination does.
Combined(self, other) ==
  [f \in Fields |-> combine_fields(self[f], other[f], TRUE)]
ToolResult__add__(self, other) ==
  IF \E f \in Fields : Combined(self, other)[f].raised
  THEN [raised |-> TRUE]
  ELSE [raised |-> FALSE,
        value |-> [f \in Fields |-> Combined(self, other)[f].value]]

\* Some code holds two results and evaluates self + other.
Add ==
  /\ op.name = "operands"
  /\ op' = [name |-> "__add__", self |-> op.self, other |-> op.other,
            out |-> ToolResult__add__(op.self, op.other)]
  /\ UNCHANGED <<agent, fleet, memory, pc, idx, outcome, adding, appended,
                 registry>>

InitResults ==
  /\ state = "IDLE"
  /\ current_step = 0
  /\ max_steps = 0
  /\ duplicate_threshold = DefaultDuplicateThreshold
  /\ messages = <<>>
  /\ observers = <<>>
  /\ max_messages = MaxMessages
  /\ InitCalls
  /\ adding = [c \in Calls |-> NoAdd]
  /\ appended = 0
  /\ op \in [name : {"operands"}, self : ToolResults, other : ToolResults]
  /\ tools = <<>>
  /\ tool_map = EmptyMap
  /\ fleet = NoFleet

NextResults == Add

SpecResults == InitResults /\ [][NextResults]_vars

\* ------------------------------------------------- agents side by side
\* Several agents are created (app/api/main.py and app/api/endpoints/ws.py
\* create a Manus() per session) and used at the same time.  fleet.heap is
\* the sequence of the Memory objects that exist, fleet.agents gives each
\* agent its own fields and the position in the heap of the Memory it
\* refers to.  An action is one of the writes an agent makes to its fields
\* or to its Memory.
AgentIds == {"A", "B"}
FleetContents == {"a"}

\* Memory.__init__: an empty log and no observer
NewMemory == [messages |-> <<>>, observers |-> <<>>]
\* A default that hands every agent the first Memory object made.
default_factory_Shared(heap) == IF heap = <<>> THEN Append(heap, NewMemory) ELSE heap
\* memory: Memory = Field(default_factory=Memory): every construction calls
\* Memory(), a new object at the end of the heap.
default_factory(heap) == Append(heap, NewMemory)

\* BaseAgent(): the fields of lines 34-44 at their defaults
Create(a) ==
  /\ a \notin DOMAIN fleet.agents
  /\ LET heap == default_factory(fleet.heap)
         new == [memory |-> Len(heap), state |-> "IDLE", current_step |-> 0]
     IN fleet' = [agents |-> [x \in DOMAIN fleet.agents \cup {a} |->
                                IF x = a THEN new ELSE fleet.agents[x]],
                  heap |-> heap]
  /\ UNCHANGED <<agent, memory, pc, idx, outcome, adding, appended, op,
                 registry>>

\* The fleet after agent a wrote its own fields.
WithAgent(a, st, cs) ==
  [fleet EXCEPT !.agents[a].state = st, !.agents[a].current_step = cs]
\* The fleet after agent a wrote the Memory it refers to.
WithMemory(a, log, obs) ==
  [fleet EXCEPT !.heap[fleet.agents[a].memory] =
                  [messages |-> log, observers |-> obs]]
OwnMemory(a) == fleet.heap[fleet.agents[a].memory]

\* a.update_memory("user", content)
FleetAppend(a, content) ==
  /\ a \in DOMAIN fleet.agents
  /\ fleet' = WithMemory(a, Trim(Append(OwnMemory(a).messages,
                                        user_message(content)), MaxMessages),
                         OwnMemory(a).observers)
  /\ UNCHANGED <<agent, memory, pc, idx, outcome, adding, appended, op,
                 registry>>

\* a.memory.add_observer(o)
FleetAddObserver(a, o) ==
  /\ a \in DOMAIN fleet.agents
  /\ Len(OwnMemory(a).observers) < MaxObservers
  /\ fleet' = WithMemory(a, OwnMemory(a).messages,
                         Append(OwnMemory(a).observers, o))
  /\ UNCHANGED <<agent, memory, pc, idx, outcome, adding, appended, op,
                 registry>>

\* a.run() passes its start check and enters the RUNNING scope.
FleetRunStart(a) ==
  /\ a \in DOMAIN fleet.agents
  /\ StartAllowed(fleet.agents[a].state)
  /\ fleet' = WithAgent(a, EnterState("RUNNING"), fleet.agents[a].current_step)
  /\ UNCHANGED <<agent, memory, pc, idx, outcome, adding, appended, op,
                 registry>>

\* The loop of a.run() goes into its next step: self.current_step += 1.
FleetStep(a) ==
  /\ a \in DOMAIN fleet.agents
  /\ fleet.agents[a].state = "RUNNING"
  /\ LoopContinues(fleet.agents[a].current_step, MaxSteps, "RUNNING")
  /\ fleet' = WithAgent(a, "RUNNING", fleet.agents[a].current_step + 1)
  /\ UNCHANGED <<agent, memory, pc, idx, outcome, adding, appended, op,
                 registry>>

\* A step of a sets the state to FINISHED.
FleetSetFinished(a) ==
  /\ a \in DOMAIN fleet.agents
  /\ fleet.agents[a].state = "RUNNING"
  /\ fleet' = WithAgent(a, "FINISHED", fleet.agents[a].current_step)
  /\ UNCHANGED <<agent, memory, pc, idx, outcome, adding, appended, op,
                 registry>>

\* The loop of a.run() ends, by its condition or by a break: lines 151-154
\* and the exit of the scope, which was entered from IDLE.
FleetRunEnd(a) ==
  /\ a \in DOMAIN fleet.agents
  /\ fleet.agents[a].state \in {"RUNNING", "FINISHED"}
  /\ fleet' = WithAgent(a, RevertState("IDLE", fleet.agents[a].state),
                        IF ReachedMax(fleet.agents[a].current_step, MaxSteps)
                        THEN 0 ELSE fleet.agents[a].current_step)
  /\ UNCHANGED <<agent, memory, pc, idx, outcome, adding, appended, op,
                 registry>>

\* What agent a does.
FleetAct(a) ==
  \/ \E content \in FleetContents : FleetAppend(a, content)
  \/ \E o \in ObserverIds : FleetAddObserver(a, o)
  \/ FleetRunStart(a)
  \/ FleetStep(a)
  \/ FleetSetFinished(a)
  \/ FleetRunEnd(a)

InitFleet ==
  /\ state = "IDLE"
  /\ current_step = 0
  /\ max_steps = 0
  /\ duplicate_threshold = DefaultDuplicateThreshold
  /\ messages = <<>>
  /\ observers = <<>>
  /\ max_messages = MaxMessages
  /\ InitCalls
  /\ InitOutside

NextFleet ==
  \/ \E a \in AgentIds : Create(a)
  \/ \E a \in AgentIds : FleetAct(a)

SpecFleet == InitFleet /\ [][NextFleet]_vars

\* ------------------------------------------------------------------ claims
\* Where a coroutine is while its run() call is accepted and has not returned.
InRun == {"notify_input", "step", "notify_step"}
NoError(res) == \A i \in 1..Len(res) : res[i][1] # "error"
NoMarker(res) == \A i \in 1..Len(res) : res[i][1] # "max"
Min(a, b) == IF a <= b THEN a ELSE b

\* C1: no re-entrancy.  Under every interleaving of run() calls on the agent,
\* at most one call is accepted and not yet returned (a second call made
\* before the first returns is rejected), so at most one loop is active.
C1_NoReentrancy == Cardinality({c \in Calls : pc[c] \in InRun}) <= 1

\* C2: a run() call that finds the agent in a state other than IDLE fails
\* with the invalid-state error and changes nothing: the log, the observers
\* and their notification, the state and the step counter stay as they were.
C2_RejectNoEffect ==
  [][\A c \in Calls :
       (pc[c] = "called" /\ state # "IDLE" /\ pc'[c] # "called")
         => /\ outcome'[c] = "rejected"
            /\ pc'[c] = "done"
            /\ UNCHANGED <<state, current_step, messages, observers, idx>>]_vars

\* Calls were rejected, one by an agent in ERROR and one by an agent that the
\* step() of a call in progress had set to FINISHED.
C2_Witness ==
  \/ \E c \in Calls : outcome[c] = "rejected" /\ state = "ERROR"
  \/ \E c, d \in Calls : /\ outcome[c] = "rejected" /\ state = "FINISHED"
                          /\ pc[d] = "step"

\* C3: every accepted run() returns after at most max_steps invocations of
\* step(), whatever step() does.
C3_StepsBounded == \A c \in Calls : iters[c] <= max_steps


\* The step of coroutine c in which its accepted run() returns.
Returns(c) == pc[c] \in InRun \cup {"called"} /\ pc'[c] = "done"
                 /\ outcome'[c] = "returned"
\* The step in which step() of c returns without a fault: run() returns, or
\* invokes the next step().
StepReturns(c) == /\ pc[c] = "step"
                  /\ \/ Returns(c) /\ NoError(results'[c])
                     \/ iters'[c] = iters[c] + 1
\* step() of c returns and run() breaks its loop on the stuck ceiling.
StuckAbort(c) == /\ pc[c] = "step"
                 /\ is_stuck(messages, duplicate_threshold)
                 /\ stuck_count[c] + 1 >= max_stuck_retries
\* step() of c returns stuck, as every earlier step() of its run did.
StuckEveryStep(c) == /\ pc[c] = "step"
                     /\ scopes[c] = <<>>
                     /\ is_stuck(messages, duplicate_threshold)
                     /\ stuck_count[c] + 1 = iters[c]

\* C4 as stated, for the first run() on a fresh agent: when step() never set
\* FINISHED and never faulted, the run returns after exactly max_steps
\* iterations, with the counter reset to 0 and the agent IDLE.
C4_ExactlyK ==
  [][\A c \in Calls :
       (Returns(c) /\ state # "FINISHED" /\ NoError(results'[c])
          /\ \A d \in Calls \ {c} : pc[d] = "idle")
         => /\ iters'[c] = max_steps
            /\ current_step' = 0
            /\ state' = "IDLE"]_vars

\* C4 as amended: a run that overlaps no other, whose step() never set
\* FINISHED, never faulted and was not found stuck on 3 consecutive steps,
\* returns after exactly max_steps - c iterations, c being the step counter
\* when the run entered RUNNING, with the counter reset to 0 and the agent
\* IDLE.
C4_RemainingSteps ==
  [][\A c \in Calls :
       (Returns(c) /\ state # "FINISHED" /\ NoError(results'[c])
          /\ ~StuckAbort(c))
         => /\ iters'[c] = max_steps - entry_step'[c]
            /\ current_step' = 0
            /\ state' = "IDLE"]_vars

\* A run that started from a counter left above 0 ran the remaining steps.
C4_Witness ==
  \E c \in Calls :
    /\ outcome[c] = "returned" /\ entry_step[c] > 0
    /\ iters[c] > 0 /\ iters[c] = max_steps - entry_step[c]
    /\ NoError(results[c]) /\ Len(results[c]) = iters[c] + 1
    /\ current_step = 0 /\ state = "IDLE"

\* C5 as stated: a run whose every step() returned stuck ends its loop after
\* exactly 3 stuck detections, whatever max_steps is.
C5_ExactlyThree ==
  [][\A c \in Calls :
       (StepReturns(c) /\ StuckEveryStep(c))
         => IF iters[c] = 3
            THEN Returns(c)
            ELSE iters'[c] = iters[c] + 1 /\ iters[c] < 3]_vars

\* C5 as amended: a run that overlaps no other, whose every step() returned
\* stuck without setting FINISHED, ends its loop after exactly
\* min(3, max_steps - c) stuck detections, c being the step counter when the
\* run entered RUNNING: after exactly 3 when at least 3 steps remained.
C5_ThreeOrRemaining ==
  [][\A c \in Calls :
       (StepReturns(c) /\ StuckEveryStep(c) /\ state # "FINISHED")
         => IF iters[c] = Min(3, max_steps - entry_step[c])
            THEN Returns(c)
            ELSE /\ iters'[c] = iters[c] + 1
                 /\ iters[c] < Min(3, max_steps - entry_step[c])]_vars

\* A run with more than 3 steps left was ended by its third stuck detection.
C5_Witness ==
  \E c \in Calls :
    /\ outcome[c] = "returned" /\ iters[c] = 3
    /\ max_steps - entry_step[c] > 3
    /\ Len(results[c]) = 2 /\ NoError(results[c]) /\ NoMarker(results[c])

\* The detector as C6 defines it.
StuckAsClaimed(log, threshold) ==
  /\ log # <<>>
  /\ log[Len(log)].role = "assistant"
  /\ log[Len(log)].content # ""
  /\ CountDup(AllButLast(log), log[Len(log)].content) >= threshold

\* C6: is_stuck() is true iff the most recent message is an assistant message
\* with non-empty content and at least duplicate_threshold of the assistant
\* messages before it have the same content, for every log and every role of
\* the last message.
C6_StuckIffAssistantRepeats ==
  is_stuck(messages, duplicate_threshold)
    <=> StuckAsClaimed(messages, duplicate_threshold)

\* The log holds only assistant messages of one non-empty content.
OnlyRepeats(log) ==
  /\ log # <<>>
  /\ \E ct \in Contents \ {""} :
       \A i \in 1..Len(log) : log[i] = assistant_message(ct)

\* C7: with duplicate_threshold = 2 and a log that holds nothing but n >= 1
\* appends of one non-empty assistant message, is_stuck() is false for n = 1
\* and n = 2 and true from n = 3 on.
C7_ThirdRepeatIsStuck ==
  (duplicate_threshold = 2 /\ OnlyRepeats(messages))
    => (is_stuck(messages, duplicate_threshold) <=> Len(messages) >= 3)

\* The same assistant message three times in a row: stuck.
C7_Witness ==
  /\ duplicate_threshold = 2
  /\ messages = <<assistant_message("a"), assistant_message("a"),
                  assistant_message("a")>>
  /\ is_stuck(messages, duplicate_threshold)

C9_NeverEndsInError ==
  (\E c \in Calls : outcome[c] \in {"returned", "raised", "rejected"})
    => state # "ERROR"

\* A run whose step() faulted has returned.
C9_Witness ==
  \E c \in Calls :
    /\ outcome[c] = "returned" /\ pc[c] = "done"
    /\ ~NoError(results[c])
    /\ \A d \in Calls : pc[d] \in {"idle", "done"}

\* C10: when the body of a scoped transition raises, the state is forced to
\* ERROR, the fault reaches the caller of the scope, and once the scope has
\* exited the state is the one recorded right before the transition, for
\* every prior state, every target state and every nesting.
C10_ErrorThenRevert ==
  /\ [](\A c \in Calls : pc[c] = "raise" => state = "ERROR")
  /\ [][\A c \in Calls :
          (pc[c] = "raise" /\ pc'[c] # "raise")
            => /\ state' = scopes[c][Len(scopes[c])]
               /\ scopes'[c] = SubSeq(scopes[c], 1, Len(scopes[c]) - 1)
               /\ \/ pc'[c] = "propagate"
                  \/ pc'[c] = "idle" /\ outcome'[c] = "raised"]_vars
  /\ [][\A c \in Calls :
          (pc[c] \in {"idle", "ctx"} /\ Len(scopes'[c]) > Len(scopes[c]))
            => scopes'[c][Len(scopes'[c])] = state]_vars

\* A fault left a scope entered from FINISHED: the agent is FINISHED again.
C10_Witness ==
  /\ outcome["c1"] = "raised" /\ pc["c1"] = "idle" /\ scopes["c1"] = <<>>
  /\ state = "FINISHED"

\* ---- C11
\* step() raises: by itself, out of a scope it opened, or because an observer
\* of a message it appends raised.
StepFaults(c) ==
  \/ StepFault(c)
  \/ StepCtxFault(c)
  \/ pc[c] = "notify_step" /\ NotifyFault(c)

ErrorEntries(res) == {i \in 1..Len(res) : res[i][1] = "error"}

\* C11: when step() raises while the step counter is i, run() appends the
\* error entry of step i to the results (followed only by the max-steps
\* marker), the results then hold exactly one error entry, run() returns
\* them instead of raising, and the call invokes no further step().
C11_StepFaultEndsRun ==
  [][\A c \in Calls :
       /\ StepFaults(c) =>
            /\ \/ results'[c] = Append(results[c], <<"error", current_step>>)
               \/ results'[c] = Append(Append(results[c],
                                              <<"error", current_step>>),
                                       <<"max", max_steps>>)
            /\ Cardinality(ErrorEntries(results'[c])) = 1
            /\ pc'[c] = "done"
            /\ outcome'[c] = "returned"
            /\ iters'[c] = iters[c]
       /\ pc[c] = "done" =>
            /\ pc'[c] = "done"
            /\ iters'[c] = iters[c]
            /\ results'[c] = results[c]]_vars

\* A run has returned after a step that returned and a step that raised.
C11_Witness ==
  \E c \in Calls : /\ outcome[c] = "returned"
                   /\ Len(results[c]) >= 2
                   /\ results[c][1][1] = "step"
                   /\ results[c][2][1] = "error"

\* ---- C12
\* C12: no call of run() ends by propagating a fault other than the
\* invalid-state error of a rejected start.
C12_OnlyInvalidStateEscapes == \A c \in Calls : outcome[c] # "raised"

\* ---- C13
\* C13: when an observer raises while add_message awaits it, the message
\* stays in the log and add_message goes on as if the observer had returned:
\* the next registered observer is invoked with the message, or, after the
\* last one, the log is trimmed to capacity and add_message returns without
\* raising.
C13_ObserverFaultIsolated ==
  [][\A c \in Calls :
       MemoryObserverFault(c) =>
         /\ outcome'[c] # "raised"
         /\ IF HasNext(idx[c], observers)
            THEN /\ pc'[c] = "notify_add"
                 /\ adding'[c].notified =
                      Append(adding[c].notified, observers[idx[c] + 2])
                 /\ messages' = messages
            ELSE /\ pc'[c] = "idle"
                 /\ outcome'[c] = "returned"
                 /\ messages' = Trim(messages, max_messages)]_vars

\* ---- C14
\* add_message, suspended in an observer, returns to its caller.
AddReturned(c) ==
  pc[c] = "notify_add" /\ pc'[c] = "idle" /\ outcome'[c] = "returned"

\* C14: the appended message is the tail of the log while the observers are
\* notified, and when add_message returns every observer that was registered
\* at the append and still is has been invoked with the message; if the
\* observer list did not change meanwhile, the observers invoked are exactly
\* that list, each once and in registration order; the log is trimmed at
\* the return.
C14_AppendNotifyTrim ==
  [][\A c \in Calls :
       /\ (pc[c] = "idle" /\ pc'[c] = "notify_add") =>
            messages' = Append(messages, Numbered(appended'))
       /\ AddReturned(c) =>
            /\ \A o \in Range(adding[c].registered) \cap Range(observers) :
                 o \in Range(adding[c].notified)
            /\ adding[c].stable => adding[c].notified = observers
            /\ messages' = Trim(messages, max_messages)]_vars

\* ---- C15
\* add_message, suspended in an observer, is over: it returns or raises.
AddEnded(c) == pc[c] = "notify_add" /\ pc'[c] = "idle"

\* C15: the appends are made one after another, so the observers get them in
\* append order if each append reaches them all before it is over: when an
\* append is over and nobody was registered or unregistered since it began,
\* every registered observer has been invoked with the message.
C15_EveryAppendDelivered ==
  [][\A c \in Calls :
       (AddEnded(c) /\ adding[c].stable) =>
         \A o \in Range(observers) : o \in Range(adding[c].notified)]_vars

\* ---- C16
\* add_message returns to its caller, at once or after its observers.
AppendCompletes(c) ==
  \/ pc[c] = "idle" /\ appended' = appended + 1 /\ pc' = pc
  \/ AddReturned(c)

\* The last min(n, cap) of the messages numbered 1..n, in insertion order.
NewestOf(n, cap) ==
  [i \in 1..Min(n, cap) |-> Numbered(n - Min(n, cap) + i)]

\* C16: when an append returns to its caller the log is within capacity and
\* holds exactly the last min(n, capacity) of the n messages appended to the
\* log since it was empty, in insertion order.
C16_CapacityKeepsNewest ==
  [][\A c \in Calls :
       AppendCompletes(c) =>
         /\ Len(messages') <= max_messages
         /\ messages' = NewestOf(appended', max_messages)]_vars

\* Two more messages than the capacity were appended: the two oldest are gone.
C16_Witness ==
  /\ pc["c1"] = "idle" /\ outcome["c1"] = "returned"
  /\ appended = max_messages + 2
  /\ Len(messages) = max_messages
  /\ messages[1] = Numbered(3)

\* ---- C17
\* The last n entries of a log, as the claim lists them.
NewestEntries(log, n) ==
  IF n = 0 THEN <<>>
  ELSE IF n <= Len(log) THEN SubSeq(log, Len(log) - n + 1, Len(log))
  ELSE log

\* C17: get_recent_messages(n) returns the last n entries of the log for
\* every n >= 0 (nothing for n = 0, the n newest for 0 < n <= length, the
\* whole log for n > length) and leaves the log as it is.
C17_RecentIsLastN ==
  [][\A n \in 0..(MaxMessages + 1) :
       MemoryGetRecent(n) =>
         /\ op'.out = NewestEntries(messages, n)
         /\ messages' = messages]_vars

\* ---- C18
\* How many times o is registered.
Registrations(list, o) == Cardinality({i \in 1..Len(list) : list[i] = o})

\* remove_observer(o) for an o that is not registered changes nothing.
AbsentIsNoOp(o) ==
  (MemoryRemoveObserver(o) /\ o \notin Range(observers)) =>
    UNCHANGED <<memory, pc, idx, outcome, adding, appended>>

\* C18 as stated: unregistering an absent observer is a no-op, and after any
\* unregister of o a second unregister of o changes nothing.
C18_TwiceIsOnce ==
  [][\A o \in Callbacks :
       /\ AbsentIsNoOp(o)
       /\ MemoryRemoveObserver(o) =>
            remove_observer(observers', o) = observers']_vars

\* C18 amended: unregistering an absent observer is a no-op, and after an
\* unregister of an o registered at most once a second unregister of o
\* changes nothing; registered k >= 2 times, o is still registered k - 1
\* times after one unregister.
C18_AbsentIsNoOp ==
  [][\A o \in Callbacks :
       /\ AbsentIsNoOp(o)
       /\ MemoryRemoveObserver(o) =>
            IF Registrations(observers, o) <= 1
            THEN remove_observer(observers', o) = observers'
            ELSE Registrations(observers', o) =
                   Registrations(observers, o) - 1]_vars

\* o2, which is not registered, was unregistered while o1 is registered and
\* the log holds a message.
C18_Witness ==
  /\ op = [name |-> "remove_observer", arg |-> "o2", found |-> FALSE]
  /\ observers = <<"o1">>
  /\ messages # <<>>

\* ---- C19
IsPrefix(p, list) == Len(p) <= Len(list) /\ SubSeq(list, 1, Len(p)) = p

\* C19: clear() empties the log and changes neither the observer list nor
\* an add_message that is suspended in an observer; an append that returns
\* after a clear(), nobody having been unregistered since the clear() nor
\* registered during the append, has invoked every observer that was
\* registered at the clear(), in registration order.
C19_ClearKeepsObservers ==
  [][/\ MemoryClear =>
          /\ messages' = <<>>
          /\ UNCHANGED <<observers, pc, idx, adding>>
     /\ \A c \in Calls :
          (/\ AddReturned(c)
           /\ op.name = "clear"
           /\ adding[c].stable
           /\ IsPrefix(op.registered, adding[c].registered))
            => IsPrefix(op.registered, adding[c].notified)]_vars

\* o1 and o2 were registered when a log holding messages was cleared; the
\* first append after the clear() has invoked both.
C19_Witness ==
  /\ op = [name |-> "clear", registered |-> <<"o1", "o2">>]
  /\ observers = <<"o1", "o2">>
  /\ appended = 1
  /\ messages = <<Numbered(1)>>
  /\ pc["c1"] = "notify_add"
  /\ adding["c1"].notified = <<"o1", "o2">>

\* ---- C20
\* execute(name) is called with a name that is no key of the registry.
ExecuteUnregistered(c, name) ==
  Execute(c, name) /\ name \notin DOMAIN tool_map

C21_ToolFaultReturned ==
  [][\A c \in Calls, e \in Faults :
       ToolRaises(c, e) =>
         /\ op.invoked # <<>>
         /\ op.invoked[1] \in Range(tools)
         /\ pc'[c] = "idle"
         /\ op'.raised = FALSE
         /\ op'.invoked = op.invoked
         /\ op'.out[1] = "Error: "
         /\ op'.out = ErrFault(e)
         /\ SubSeq(op'.out, 2, Len(op'.out)) = e]_vars

\* execute("t1") invoked the registered tool t1, the tool raised "boom", and
\* the call has returned the error text carrying "boom".
C21_Witness ==
  /\ pc["c1"] = "idle"
  /\ op.name = "execute"
  /\ op.arg = "t1"
  /\ op.invoked # <<>>
  /\ op.out = <<"Error: ", "boom">>

\* ---- C22
\* What a call of update_memory that gets as far as add_message does at once:
\* msg is the new last entry of the log, after entries the log already had.
AppendsOne(msg) ==
  /\ messages' # <<>>
  /\ messages'[Len(messages')] = msg
  /\ \E k \in 0..Len(messages) :
       AllButLast(messages') = SubSeq(messages, k + 1, Len(messages))
  /\ appended' = appended + 1

\* The call fails at once: the log, the observers and the notifications in
\* flight are as they were and the caller is not suspended.
FailsAtOnce(c, error) ==
  /\ outcome'[c] = error
  /\ pc'[c] = "idle"
  /\ UNCHANGED <<messages, observers, adding, appended>>

\* C22 as stated: update_memory with a role outside the four fails at once,
\* appends nothing and notifies nobody; with one of the four roles it appends
\* exactly one message of that role and content.
C22_RoleDecides ==
  [][\A c \in Calls, role \in RoleArgs, content \in UpdateContents :
       \A kw \in KwargsOf(role) :
       UpdateMemoryCall(c, role, content, kw) =>
         IF role \in Roles
         THEN \E msg \in Range(messages') :
                /\ msg.role = role
                /\ msg.content = content
                /\ AppendsOne(msg)
         ELSE FailsAtOnce(c, "ValueError")]_vars

\* C22 amended: a role outside the four fails at once with ValueError, and
\* the tool role without both a name and a tool_call_id fails at once with
\* TypeError, nothing being appended and nobody notified; every other call
\* appends exactly one message of that role and content, a tool message
\* carrying the name and the tool_call_id given, and the first observer, if
\* any, is the only one invoked so far.
C22_RoleAndKeywordsDecide ==
  [][\A c \in Calls, role \in RoleArgs, content \in UpdateContents :
       \A kw \in KwargsOf(role) :
       UpdateMemoryCall(c, role, content, kw) =>
         IF role \notin Roles
         THEN FailsAtOnce(c, "ValueError")
         ELSE IF role = "tool" /\ DOMAIN kw # KwKeys
         THEN FailsAtOnce(c, "TypeError")
         ELSE /\ \E msg \in Range(messages') :
                   /\ msg.role = role
                   /\ msg.content = content
                   /\ role = "tool" =>
                        /\ msg.name = kw["name"]
                        /\ msg.tool_call_id = kw["tool_call_id"]
                   /\ AppendsOne(msg)
              /\ adding'[c].notified =
                   IF observers = <<>> THEN <<>> ELSE <<observers[1]>>
              /\ outcome'[c] \notin {"ValueError", "TypeError"}]_vars

\* With an observer registered and a tool message in the log, a call with an
\* unrecognized role has just failed.
C22_Witness ==
  /\ outcome["c1"] = "ValueError"
  /\ observers # <<>>
  /\ Len(messages) = 2
  /\ messages[2].role = "tool"
  /\ messages[1].role = "user"

\* ---- C23
\* The loop of c ends by the break of a step fault or of the stuck ceiling.
EndsByBreak(c) ==
  \/ StepFaults(c)
  \/ StepReturn(c) /\ StuckAbort(c)

\* C23: while run() calls follow one another, no step of a run lowers the
\* step counter except the return of the run, which may set it to zero, and
\* a run whose loop ends by a step fault or by the stuck abort leaves the
\* counter as it is.
C23_ResetOnlyOnNormalEnd ==
  [][\A c \in Calls :
       /\ (pc[c] \in InRun \cup {"called"} /\ pc'[c] # pc[c]) =>
            \/ current_step' >= current_step
            \/ Returns(c) /\ current_step' = 0
       /\ EndsByBreak(c) => current_step' = current_step]_vars

\* ---- C24
\* C24: whatever runs came before and however they ended, the step counter
\* is at least 0 and at most max_steps, and step() is invoked only when the
\* counter was below max_steps.
C24_CounterBounded ==
  /\ [](0 <= current_step /\ current_step <= max_steps)
  /\ [][\A c \in Calls :
          iters'[c] # iters[c] =>
            /\ current_step < max_steps
            /\ current_step' = current_step + 1]_vars

\* A second run, started with the counter a faulted run left at 1, is in the
\* step() that brings the counter to max_steps.
C24_Witness ==
  /\ pc["c2"] = "step"
  /\ outcome["c1"] = "returned"
  /\ ~NoError(results["c1"])
  /\ entry_step["c2"] = 1
  /\ max_steps >= 2
  /\ current_step = max_steps

\* ---- C25
\* What agent b has: its log, its observers, its state and its step counter.
Owned(b) ==
  [messages |-> fleet.heap[fleet.agents[b].memory].messages,
   observers |-> fleet.heap[fleet.agents[b].memory].observers,
   state |-> fleet.agents[b].state,
   current_step |-> fleet.agents[b].current_step]

\* C25: of two agents that exist side by side, whatever one of them does (an
\* append to its log, a registration of an observer, the start, a step or the
\* end of its run), the log, the observers, the state and the step counter
\* of the other one stay as they are.
C25_AgentsIndependent ==
  [][\A a \in AgentIds :
       FleetAct(a) =>
         \A b \in DOMAIN fleet.agents \ {a} : Owned(b)' = Owned(b)]_vars

\* A is in the second step of its run with a message in its log and an
\* observer, while B, created too, is idle with an empty log and no observer.
C25_Witness ==
  /\ DOMAIN fleet.agents = AgentIds
  /\ Owned("A") = [messages |-> <<user_message("a")>>, observers |-> <<"o1">>,
                   state |-> "RUNNING", current_step |-> 2]
  /\ Owned("B") = [messages |-> <<>>, observers |-> <<>>, state |-> "IDLE",
                   current_step |-> 0]

\* ---- C26
\* C26: a + b of two ToolResults either fails, and then some field is
\* non-empty in both operands, or yields a result in which every field that
\* is non-empty in both operands is the concatenation of the two, and every
\* field that is non-empty in one operand only is that operand's field: no
\* non-empty field of a or b is dropped or overwritten.
C26_CombineKeepsBoth ==
  op.name = "__add__" =>
    IF op.out.raised
    THEN \E f \in Fields : Truthy(op.self[f]) /\ Truthy(op.other[f])
    ELSE \A f \in Fields :
           /\ (Truthy(op.self[f]) /\ Truthy(op.other[f])) =>
                op.out.value[f] = Text(op.self[f].text \o op.other[f].text)
           /\ (Truthy(op.self[f]) /\ ~Truthy(op.other[f])) =>
                op.out.value[f] = op.self[f]
           /\ (~Truthy(op.self[f]) /\ Truthy(op.other[f])) =>
                op.out.value[f] = op.other[f]

\* a has output "x" and error "x", b has output "y" and no error: a + b has
\* output "xy" and error "x".
C26_Witness ==
  /\ op.name = "__add__"
  /\ op.self = [f \in Fields |-> IF f = "system" THEN None ELSE Text(<<"x">>)]
  /\ op.other = [f \in Fields |-> IF f = "output" THEN Text(<<"y">>) ELSE None]
  /\ ~op.out.raised
  /\ op.out.value["output"] = Text(<<"x", "y">>)
  /\ op.out.value["error"] = Text(<<"x">>)

\* ---- C27
\* C27: the message update_memory builds with the constructor of a role has
\* that role and the content given, and every tool message in the log has a
\* non-empty name and a non-empty tool_call_id.
C27_ConstructorsAndToolIds ==
  /\ [][\A c \in Calls, role \in Roles, content \in UpdateContents :
          \A kw \in KwargsOf(role) :
          (UpdateMemoryCall(c, role, content, kw) /\ messages' # messages) =>
            /\ messages'[Len(messages')].role = role
            /\ messages'[Len(messages')].content = content]_vars
  /\ [](\A i \in 1..Len(messages) :
          messages[i].role = "tool" =>
            /\ messages[i].name # ""
            /\ messages[i].tool_call_id # "")

\* ---- C28
\* The step in which the loop of c ends by its own condition, no break, with
\* the step counter at max_steps, and run() returns.
ExitByCounter(c) ==
  /\ Returns(c)
  /\ ~EndsByBreak(c)
  /\ current_step >= max_steps

\* The entries of the steps numbered from + 1 to upto, in order.
StepEntries(from, upto) == [k \in 1..(upto - from) |-> <<"step", from + k>>]

\* C28 as stated: when the loop ends because the counter reached max_steps,
\* the counter is reset to 0, the state is IDLE, and the results are the
\* entries of max_steps executed steps followed by the max-steps marker.
C28_MarkerAfterMaxSteps ==
  [][\A c \in Calls :
       ExitByCounter(c) =>
         /\ current_step' = 0
         /\ state' = "IDLE"
         /\ results'[c] = Append(StepEntries(0, max_steps),
                                 <<"max", max_steps>>)]_vars

\* C28 amended: the same, the results being the entries of the steps this
\* run executed, those numbered from the counter the run started with up to
\* max_steps, followed by the max-steps marker.
C28_MarkerAfterOwnSteps ==
  [][\A c \in Calls :
       ExitByCounter(c) =>
         /\ current_step' = 0
         /\ state' = "IDLE"
         /\ results'[c] = Append(StepEntries(entry_step'[c], max_steps),
                                 <<"max", max_steps>>)]_vars

\* A run that started with the counter at 1 has run steps 2 and 3 of 3 and
\* returned their entries and the marker.
C28_Witness ==
  \E c \in Calls :
    /\ pc[c] = "done"
    /\ max_steps = 3
    /\ entry_step[c] = 1
    /\ results[c] = <<<<"step", 2>>, <<"step", 3>>, <<"max", 3>>>>
    /\ current_step = 0
    /\ state = "IDLE"

\* ---- C29
\* step() of c returns, having left the state FINISHED.
ReturnsFinished(c) == StepReturn(c) /\ state = "FINISHED"

\* The results of c with the entry of the step that is returning, and with
\* the max-steps marker when the counter is at max_steps.
WithMarker(res) ==
  IF ReachedMax(current_step, max_steps)
  THEN Append(res, <<"max", max_steps>>) ELSE res
WithSummary(c) == Append(results[c], <<"step", current_step>>)

\* C29 as stated: when step() returns with the state FINISHED, run() invokes
\* no further step() and returns, whatever the step counter, and the results
\* hold the summary of that step.
C29_FinishedEndsRecorded ==
  [][\A c \in Calls :
       ReturnsFinished(c) =>
         /\ iters'[c] = iters[c]
         /\ Returns(c)
         /\ results'[c] = WithMarker(WithSummary(c))]_vars

\* C29 amended: when step() returns with the state FINISHED, run() invokes no
\* further step() and returns, whatever the step counter; the results hold
\* the summary of that step unless the step is the third stuck detection in
\* a row, which breaks the loop before the summary is recorded.
C29_FinishedEndsRecordedUnlessStuck ==
  [][\A c \in Calls :
       ReturnsFinished(c) =>
         /\ iters'[c] = iters[c]
         /\ Returns(c)
         /\ results'[c] = IF StuckAbort(c) THEN WithMarker(results[c])
                          ELSE WithMarker(WithSummary(c))]_vars

\* A run whose first step() set FINISHED has returned that step's summary
\* alone, with the counter at 1 below max_steps.
C29_Witness ==
  \E c \in Calls :
    /\ pc[c] = "done"
    /\ outcome[c] = "returned"
    /\ iters[c] = 1
    /\ results[c] = <<<<"step", 1>>>>
    /\ current_step = 1
    /\ max_steps >= 3
    /\ \A d \in Calls \ {c} : pc[d] = "idle"

\* ---- C30
\* The append of the initial input of c, begun in RunStartInput, ends: every
\* observer has returned, or one has raised.
InputAppendEnds(c) == pc[c] = "notify_input" /\ pc'[c] # "notify_input"

\* C30: run() given a non-empty input appends exactly one user message with
\* that content while the state is IDLE, the state stays IDLE and no step() of
\* the run is invoked until the append has ended, and by then every
\* registered observer has been notified of the message; run() given no
\* input appends nothing before its first step().
C30_InputAppendedFirst ==
  [][\A c \in Calls :
       /\ RunStartInput(c) =>
            /\ state = "IDLE"
            /\ messages' # <<>>
            /\ messages'[Len(messages')] = user_message(request[c])
            /\ AllButLast(messages') \in
                 {messages, Trim(messages, max_messages - 1)}
       /\ pc[c] = "notify_input" =>
            /\ state = "IDLE"
            /\ iters[c] = 0
            /\ pc'[c] = "notify_input" => messages' = messages
       /\ InputAppendEnds(c) =>
            \A o \in Range(observers) :
              o \in Range(SubSeq(observers, 1, idx[c] + 1))
       /\ RunStartNoInput(c) => messages' = messages]_vars

\* ---- C31
\* C31: stuck_count counts the stuck detections in a row.  It is 0 when the
\* loop begins; a step() after which is_stuck is false sets it to 0 and adds
\* no directive; a step() after which is_stuck is true for the 1st or the 2nd
\* time in a row raises it by one, puts the anti-repetition directive before
\* the next-step prompt, records the step's summary and does not break the
\* loop (the next step() is invoked unless the loop condition ends the run);
\* the 3rd stuck detection in a row, and nothing else, breaks the loop for
\* being stuck, with no directive added.
C31_StuckCountsConsecutive ==
  [][\A c \in Calls :
       /\ (pc[c] \in {"called", "notify_input"} /\ pc'[c] = "step") =>
            stuck_count'[c] = 0
       /\ StepReturn(c) =>
            LET stuck == is_stuck(messages, duplicate_threshold)
                goesOn == LoopContinues(current_step, max_steps, state)
            IN /\ stuck_count[c] < max_stuck_retries
               /\ ~stuck =>
                    /\ goesOn => stuck_count'[c] = 0
                    /\ next_step_prompt' = next_step_prompt
                    /\ results'[c] = WithMarker(WithSummary(c))
                    /\ goesOn <=> iters'[c] = iters[c] + 1
               /\ (stuck /\ stuck_count[c] + 1 < max_stuck_retries) =>
                    /\ goesOn => stuck_count'[c] = stuck_count[c] + 1
                    /\ next_step_prompt' = <<"stuck_prompt">> \o next_step_prompt
                    /\ results'[c] = WithMarker(WithSummary(c))
                    /\ goesOn <=> iters'[c] = iters[c] + 1
               /\ (stuck /\ stuck_count[c] + 1 = max_stuck_retries) =>
                    /\ Returns(c)
                    /\ iters'[c] = iters[c]
                    /\ next_step_prompt' = next_step_prompt
                    /\ results'[c] = WithMarker(results[c])]_vars

\* A run that was stuck once and then made progress is in a later step()
\* with the count back at 0 and one directive in the prompt.
C31_Witness ==
  \E c \in Calls :
    /\ pc[c] = "step"
    /\ iters[c] >= 3
    /\ stuck_count[c] = 0
    /\ Len(results[c]) = iters[c] - 1
    /\ next_step_prompt = <<"stuck_prompt">>
    /\ \A d \in Calls \ {c} : pc[d] = "idle"

\* ---- C32
\* The call c enters its RUNNING scope; it leaves it, the state being again
\* what it was at the entry; step() sets FINISHED inside it.
ScopeEntry(c) == pc[c] = "idle" /\ pc'[c] = "loop" /\ state' = "RUNNING"
ScopeExit(c) ==
  pc[c] = "exit" /\ pc'[c] = "idle" /\ state' = scopes[c][Len(scopes[c])]
ByStep(c) == pc[c] = "in_step" /\ pc'[c] = "in_step" /\ state' = "FINISHED"
\* run() itself assigns IDLE after the loop, the counter being at max_steps.
ForcedIdle(c) ==
  /\ pc[c] = "after" /\ pc'[c] = "exit"
  /\ current_step >= max_steps
  /\ state' = "IDLE"

\* C32 as stated: every change of the state during run() that step() does not
\* make itself is the entry or the exit of a scoped transition.
C32_OnlyScopedWrites ==
  [][state' # state =>
       \E c \in Calls : ScopeEntry(c) \/ ScopeExit(c) \/ ByStep(c)]_vars

\* C32 amended: every change of the state during run() that step() does not
\* make itself is the entry or the exit of a scoped transition, or the
\* assignment of IDLE that run() makes inside its scope when the counter has
\* reached max_steps; and the end of the scope's body is always followed by
\* the exit, which puts back the state of the entry.
C32_ScopedOrForcedIdle ==
  [][/\ state' # state =>
          \E c \in Calls :
            ScopeEntry(c) \/ ScopeExit(c) \/ ByStep(c) \/ ForcedIdle(c)
     /\ \A c \in Calls : (pc[c] = "exit" /\ pc'[c] # "exit") => ScopeExit(c)]_vars

\* run() is at the end of its scope's body having assigned IDLE itself at
\* max_steps, the scope not left yet.
C32_Witness ==
  /\ pc["c1"] = "exit"
  /\ state = "IDLE"
  /\ scopes["c1"] = <<"IDLE">>
  /\ current_step = 0
  /\ max_steps >= 1

\* ---- C33
\* C33: while run() calls follow one another, whenever no call is inside
\* run() the state is IDLE, whatever ended the loop of the call before, and
\* no call is rejected.
C33_IdleAfterEveryRun ==
  /\ (\A c \in Calls : pc[c] \notin InRun) => state = "IDLE"
  /\ \A c \in Calls : outcome[c] # "rejected"

\* The first call returned after one step, that set FINISHED below
\* max_steps, and the second call has been accepted and is in its step.
C33_Witness ==
  /\ pc["c1"] = "done" /\ outcome["c1"] = "returned"
  /\ results["c1"] = <<<<"step", 1>>>>
  /\ max_steps = 3
  /\ pc["c2"] = "step" /\ state = "RUNNING" /\ current_step = 2

\* ---- C34
\* C34: under every interleaving of run() calls on one agent, whenever no
\* call is inside run() the state is IDLE.
C34_IdleWhenNoRunActive ==
  (\A c \in Calls : pc[c] \notin InRun) => state = "IDLE"

\* ---- C35
\* C35: while run() calls follow one another, a run numbers its steps from
\* the counter it found at its entry, invokes step() at most max_steps minus
\* that counter times, and on its return leaves the counter where its last
\* step brought it when that is below max_steps, whatever ended the loop,
\* and at 0 when it is max_steps.
C35_CounterCarriedOver ==
  /\ [](\A c \in Calls :
          pc[c] \in {"step", "notify_step"} =>
            /\ current_step = entry_step[c] + iters[c]
            /\ iters[c] <= max_steps - entry_step[c])
  /\ [][\A c \in Calls :
          /\ (pc[c] \in {"called", "notify_input"} /\ pc'[c] = "step") =>
               /\ entry_step'[c] = current_step
               /\ iters'[c] = 1
               /\ current_step' = current_step + 1
          /\ Returns(c) =>
               current_step' = IF current_step >= max_steps
                               THEN 0 ELSE current_step]_vars

\* The first run ended after steps 1 and 2 of 4, FINISHED being set; the
\* second one started from 2, ran steps 3 and 4 and reset the counter.
C35_Witness ==
  /\ max_steps = 4
  /\ outcome["c1"] = "returned"
  /\ results["c1"] = <<<<"step", 1>>, <<"step", 2>>>>
  /\ pc["c2"] = "done"
  /\ entry_step["c2"] = 2 /\ iters["c2"] = 2
  /\ results["c2"] = <<<<"step", 3>>, <<"step", 4>>, <<"max", 4>>>>
  /\ current_step = 0

\* ---- C36
Last(res) == res[Len(res)]

\* C36: while run() calls follow one another, a run that returns has appended
\* the max-steps marker, as the last entry, and reset the counter to 0
\* exactly when the counter was at or above max_steps when the loop was
\* left, whether by the loop condition, by a step fault, by the stuck abort
\* or with FINISHED set; when it was below, the results hold no marker and
\* the counter is left as it is.  The state is IDLE in both cases.
C36_MarkerIffCounterAtMax ==
  [][\A c \in Calls :
       Returns(c) =>
         /\ state' = "IDLE"
         /\ IF current_step >= max_steps
            THEN /\ results'[c] # <<>>
                 /\ Last(results'[c]) = <<"max", max_steps>>
                 /\ NoMarker(AllButLast(results'[c]))
                 /\ current_step' = 0
            ELSE /\ NoMarker(results'[c])
                 /\ current_step' = current_step]_vars

\* step 2 of 2 raised: the results end with its error entry and the marker,
\* and the counter is reset.
C36_Witness ==
  \E c \in Calls :
    /\ pc[c] = "done" /\ outcome[c] = "returned"
    /\ max_steps = 2
    /\ results[c] = <<<<"step", 1>>, <<"error", 2>>, <<"max", 2>>>>
    /\ current_step = 0 /\ state = "IDLE"

\* ---- C37
\* C37: while run() calls follow one another, the results of a run that
\* returns are never empty: a run without any iteration returns the
\* max-steps marker alone, and any other run has the summary or the error
\* entry of its first step as its first entry.
C37_ResultsNeverEmpty ==
  [][\A c \in Calls :
       Returns(c) =>
         /\ results'[c] # <<>>
         /\ iters'[c] = 0 => results'[c] = <<<<"max", max_steps>>>>
         /\ iters'[c] > 0 =>
              results'[c][1] \in {<<"step", entry_step'[c] + 1>>,
                                  <<"error", entry_step'[c] + 1>>}]_vars

\* With max_steps = 0 a run returned the marker alone, without a step.
C37_Witness ==
  \E c \in Calls :
    /\ pc[c] = "done" /\ outcome[c] = "returned"
    /\ max_steps = 0 /\ iters[c] = 0
    /\ results[c] = <<<<"max", 0>>>>

\* ---- C38
\* The anti-repetition directive, n times.
Directives(n) == [k \in 1..n |-> "stuck_prompt"]

\* C38: with duplicate_threshold = T >= 1, max_steps >= T + 3, a log with
\* room for more than T + 4 messages that holds at most the user message of
\* the request, and a step() that appends the same non-empty assistant
\* message in every iteration: is_stuck() is false after each of the steps
\* 1..T and true after each later one; the run goes on after the steps
\* 1..T+2 and returns after step T + 3; the directive has then been added
\* exactly twice, after the steps T + 1 and T + 2; and the results are the
\* summaries of the steps 1..T+2, followed by the max-steps marker only when
\* max_steps = T + 3.
C38_RepeatingStepAborts ==
  [][\A c \in Calls :
       RepeatReturn(c) =>
         LET T == duplicate_threshold
         IN /\ current_step = iters[c]
            /\ is_stuck(messages, T) <=> iters[c] >= T + 1
            /\ Returns(c) <=> iters[c] = T + 3
            /\ iters[c] <= T + 3
            /\ next_step_prompt' =
                 Directives(IF iters[c] <= T THEN 0
                            ELSE IF iters[c] = T + 1 THEN 1 ELSE 2)
            /\ Returns(c) =>
                 results'[c] = StepEntries(0, T + 2)
                                 \o (IF max_steps = T + 3
                                     THEN <<<<"max", max_steps>>>> ELSE <<>>)]_vars

\* With T = 3 and max_steps = 7 the run has returned after step 6 with the
\* summaries of the steps 1..5, no marker, and two directives added.
C38_Witness ==
  /\ duplicate_threshold = 3 /\ max_steps = 7
  /\ pc["c1"] = "done" /\ outcome["c1"] = "returned"
  /\ iters["c1"] = 6
  /\ results["c1"] = StepEntries(0, 5)
  /\ next_step_prompt = Directives(2)
  /\ Len(messages) = 7 /\ messages[1] = user_message("a")
  /\ current_step = 6 /\ state = "IDLE"

\* ---- C39
\* The position of the earliest registration of o.
Earliest(list, o) == CHOOSE i \in 1..Len(list) :
                       list[i] = o /\ \A j \in 1..(i - 1) : list[j] # o
\* The list without its entry at position i.
Without(list, i) == SubSeq(list, 1, i - 1) \o SubSeq(list, i + 1, Len(list))

\* C39: a registration of o adds one to the number of times o is registered,
\* whether o was registered or not; an unregistration of a registered o
\* removes its earliest registration and no other; and an append that
\* returns, the list not having changed meanwhile, has invoked every
\* callback as many times as it is registered, so that o is still notified
\* after fewer unregistrations than it has registrations.
C39_RegistrationsCount ==
  [][/\ \A o \in Callbacks :
          /\ RegisterAgain(o) =>
               Registrations(observers', o) = Registrations(observers, o) + 1
          /\ (MemoryRemoveObserver(o) /\ o \in Range(observers)) =>
               observers' = Without(observers, Earliest(observers, o))
     /\ \A c \in Calls :
          (AddReturned(c) /\ adding[c].stable) =>
            \A o \in Callbacks :
              Registrations(adding[c].notified, o)
                = Registrations(adding[c].registered, o)]_vars

\* o1 was registered before and after o2, its earliest registration was
\* removed, and an append is about to return having invoked o2, then o1.
C39_Witness ==
  /\ op = [name |-> "remove_observer", arg |-> "o1", found |-> TRUE]
  /\ observers = <<"o2", "o1">>
  /\ pc["c1"] = "notify_add"
  /\ adding["c1"] = [registered |-> <<"o2", "o1">>,
                     notified |-> <<"o2", "o1">>, stable |-> TRUE]

\* ---- C40
\* C40: after any sequence of add_tool calls on a collection, every
\* registered name appears exactly once in what to_params() exports, the
\* tools of the list are the tools of the name -> tool map, and
\* get_tool(name) returns the tool exported under that name.
C40_NamesAreUniqueKeys ==
  /\ \A n \in ToolNames :
       Cardinality({i \in 1..Len(tools) : to_params(tools)[i].function = n})
         = IF n \in DOMAIN tool_map THEN 1 ELSE 0
  /\ Range(tools) = {tool_map[n] : n \in DOMAIN tool_map}
  /\ \A i \in 1..Len(tools) :
       get_tool(tool_map, to_params(tools)[i].function)
         = <<to_params(tools)[i].of>>

====
